---- MODULE Spec2Model ----
(***************************************************************************)
(* A model of code-gap.py: the structure extractor, the semantic grouper,  *)
(* the chunk builder, the splitter, the per-chunk model call, the          *)
(* synthesis of the results, the Markdown report and main().               *)
(*                                                                         *)
(* Representation.  A text (a Python str) is a sequence of symbols.  A     *)
(* symbol is one character of file content ("d", " ", "W", "\n", ...) or   *)
(* one literal fragment of the program's own f-strings ("File: ", " (",    *)
(* "def ", " (truncated)", ".py", ...).  File content holds one-character  *)
(* symbols only, so slicing a line by characters is slicing its sequence.  *)
(***************************************************************************)
EXTENDS Integers, Sequences, FiniteSets, TLC

VARIABLES
    pc,            \* position of the running function / of main()
    code_repo,     \* the files under --code-repo
    docs_repo,     \* the files under --docs-repo
    code_structure,  \* the RepoStructure of the code repository
    file_groups,   \* _group_files_semantically: the dict of groups, keys in insertion order
    groups_to_merge, \* _group_files_semantically: the pairs still to merge in this pass
    changed,       \* _group_files_semantically: the loop flag
    merges,        \* the number of merges performed so far (not in the code)
    groups,        \* the list of groups that _group_files_semantically returns
    file_paths,    \* the file_paths handed to _create_chunks
    split_in,      \* the (file_path, content, file_type) handed to _split_large_file
    chunks,        \* the chunk list a call appends to / returns (all_chunks in main)
    creds,         \* the three environment variables that main() reads
    outcomes,      \* what the model call did for each chunk analysed so far (not in the code)
    chunk_results, \* the per-chunk results
    final_results, \* what synthesize_results returned
    report,        \* the report written to --output-file
    exit_status,   \* the exit status of the process
    stub,          \* the deterministic model stub of a run, if any (the environment)
    previous       \* the previous run of main() on the same repositories, if any

mainVars == <<creds, outcomes, chunk_results, final_results, report, exit_status,
              stub, previous>>
groupVars == <<code_structure, file_groups, groups_to_merge, changed, merges, groups>>
vars == <<pc, code_repo, docs_repo, groupVars, file_paths, split_in, chunks, mainVars>>

(***************************************************************************)
(* Configuration (src/code-gap.py:16).  The budget is scaled down from     *)
(* 100000 so that over-budget files, functions and lines have a handful   *)
(* of symbols; every comparison against it is the code's.                  *)
(***************************************************************************)
MAX_TOKENS_PER_REQUEST == 16

\* Bounds of the model.
MaxLines == 3    \* lines of a generated file content
MaxFiles == 3    \* length of a file_paths list
MaxDirs == 3     \* directories of a generated RepoStructure
MaxGaps == 3     \* gaps in the results given to synthesize_results

(***************************************************************************)
(* Generic helpers on sequences.                                           *)
(***************************************************************************)
RECURSIVE Flatten(_)
Flatten(ss) == IF ss = <<>> THEN <<>> ELSE Head(ss) \o Flatten(Tail(ss))

\* Python's s[:n] and s[a:b] on a sequence (0-based, end exclusive).
Slice(s, a, b) == SubSeq(s, a + 1, IF b > Len(s) THEN Len(s) ELSE b)

\* Python's str.startswith and str.endswith.
StartsWith(s, p) == Len(p) <= Len(s) /\ SubSeq(s, 1, Len(p)) = p
EndsWith(s, p) == Len(p) <= Len(s) /\ SubSeq(s, Len(s) - Len(p) + 1, Len(s)) = p

\* All sequences over S of length lo..hi.
SeqsOf(S, lo, hi) == UNION { [1..n -> S] : n \in lo..hi }

(***************************************************************************)
(* '\n'.join(lines) and content.split('\n').                               *)
(***************************************************************************)
NL == "\n"

RECURSIVE JoinLines(_)
JoinLines(ls) ==
    IF ls = <<>> THEN <<>>
    ELSE IF Len(ls) = 1 THEN ls[1]
    ELSE ls[1] \o <<NL>> \o JoinLines(Tail(ls))

RECURSIVE SplitFrom(_, _)
SplitFrom(text, cur) ==
    IF text = <<>> THEN <<cur>>
    ELSE IF Head(text) = NL THEN <<cur>> \o SplitFrom(Tail(text), <<>>)
    ELSE SplitFrom(Tail(text), Append(cur, Head(text)))

SplitLines(text) == SplitFrom(text, <<>>)

(***************************************************************************)
(* The token counter (_count_tokens, tiktoken's encoding).  A byte-pair    *)
(* encoding is modelled by what matters to the callers: a symbol costs     *)
(* one token, except "W" (a character the vocabulary encodes byte by      *)
(* byte, four tokens), and two equal adjacent symbols of MergedPairs are   *)
(* one token, so the count of a text is not the sum of the counts of its   *)
(* parts.                                                                  *)
(***************************************************************************)
MergedPairs == {NL, " ", "x"}

SymbolTokens(c) == IF c = "W" THEN 4 ELSE 1

RECURSIVE Encode(_)
Encode(text) ==
    IF text = <<>> THEN 0
    ELSE IF Len(text) >= 2 /\ text[1] = text[2] /\ text[1] \in MergedPairs
         THEN 1 + Encode(Tail(Tail(text)))
         ELSE SymbolTokens(Head(text)) + Encode(Tail(text))

_count_tokens(text) == Encode(text)

\* f"File: {file_path}\n\n{content}"
Framed(path, content) == <<"File: ">> \o path \o <<NL, NL>> \o content

(***************************************************************************)
(* The parseable dialect (ast.parse, ast.walk).  A line is its indent (the *)
(* leading " " symbols) and a statement.  <<"d", n>> is a function         *)
(* definition named n and <<"c", n>> a class definition named n; either    *)
(* may be followed by a body of deeper lines.  A line holding "?" is a     *)
(* syntax error, as is an indent that opens no body.  Any other line is a  *)
(* simple statement; a line of spaces only is blank.                       *)
(***************************************************************************)
RECURSIVE Indent(_)
Indent(line) ==
    IF line /= <<>> /\ Head(line) = " " THEN 1 + Indent(Tail(line)) ELSE 0

Stripped(line) == SubSeq(line, Indent(line) + 1, Len(line))

IsBlank(line) == Stripped(line) = <<>>

IsHeader(line) == Len(Stripped(line)) = 2 /\ Stripped(line)[1] \in {"d", "c"}

PrevNonBlank(lines, i) ==
    LET before == { j \in 1..(i - 1) : ~IsBlank(lines[j]) }
    IN  IF before = {} THEN 0 ELSE CHOOSE j \in before : \A k \in before : k <= j

IndentOK(lines, i) ==
    LET j == PrevNonBlank(lines, i)
    IN  IF j = 0 THEN Indent(lines[i]) = 0
        ELSE \/ Indent(lines[i]) <= Indent(lines[j])
             \/ IsHeader(lines[j]) /\ Indent(lines[i]) = Indent(lines[j]) + 1

\* ast.parse(content) raises.
ParseFails(content) ==
    LET lines == SplitLines(content)
    IN  \E i \in 1..Len(lines) :
            /\ ~IsBlank(lines[i])
            /\ \/ \E k \in 1..Len(lines[i]) : lines[i][k] = "?"
               \/ ~IndentOK(lines, i)

\* node.end_lineno: the last line of the body of the definition at line i.
EndLineno(lines, i) ==
    LET ends == { j \in i..Len(lines) :
                    /\ ~IsBlank(lines[j])
                    /\ \A k \in (i + 1)..j :
                          ~IsBlank(lines[k]) => Indent(lines[k]) > Indent(lines[i]) }
    IN  CHOOSE j \in ends : \A k \in ends : k <= j

\* The definition node of line i: (lineno, end_lineno, name), with the
\* node's col_offset (0 for a top-level definition).
DefNode(lines, i) ==
    [lineno     |-> i,
     end_lineno |-> EndLineno(lines, i),
     name       |-> <<Stripped(lines[i])[2]>>,
     col_offset |-> Indent(lines[i])]

\* The nodes of one kind that ast.walk(tree) yields, in line order.
RECURSIVE NodesFrom(_, _, _)
NodesFrom(lines, kind, i) ==
    IF i > Len(lines) THEN <<>>
    ELSE (IF IsHeader(lines[i]) /\ Stripped(lines[i])[1] = kind
          THEN <<DefNode(lines, i)>> ELSE <<>>)
         \o NodesFrom(lines, kind, i + 1)

\* Every FunctionDef / AsyncFunctionDef of the tree, at any depth.
WalkFunctionDefs(content) == NodesFrom(SplitLines(content), "d", 1)

\* Every ClassDef of the tree, at any depth.
WalkClassDefs(content) == NodesFrom(SplitLines(content), "c", 1)

(***************************************************************************)
(* sorted(items, key=...) and list.sort(key=...): a stable sort.  keys[i]  *)
(* is the key of items[i].                                                 *)
(***************************************************************************)
StableSort(items, keys) ==
    LET n == Len(items)
        Before(j, i) == keys[j] < keys[i] \/ (keys[j] = keys[i] /\ j < i)
        Rank(i) == Cardinality({ j \in 1..n : Before(j, i) }) + 1
    IN  [r \in 1..n |-> items[CHOOSE i \in 1..n : Rank(i) = r]]

(***************************************************************************)
(* Chunks.  A chunk is {"files": [unit, ...], "tokens": n} and a unit is   *)
(* {"path", "content", "type"}.  The field via is not in the code: it      *)
(* records which statement appended the chunk ("whole": _create_chunks,   *)
(* "ast": lines 223-226, "lines": lines 248-251 and 268-271,               *)
(* "truncated": lines 256-259), for the properties that speak of it.       *)
(***************************************************************************)
Unit(path, content, type) == [path |-> path, content |-> content, type |-> type]

Chunk(files, tokens, via) == [files |-> files, tokens |-> tokens, via |-> via]

\* f" ({name_suffix})" if name_suffix else ""
PathSuffix(name_suffix) ==
    IF name_suffix /= <<>> THEN <<" (">> \o name_suffix \o <<")">> ELSE <<>>

(***************************************************************************)
(* _split_by_lines: one iteration of the loop over the lines (the state is *)
(* the chunk list, current_lines and current_tokens), the loop, and the    *)
(* flush of the remaining lines.                                           *)
(***************************************************************************)
\* line[:MAX_TOKENS_PER_REQUEST // 4]
TruncatedLine(line) == Slice(line, 0, MAX_TOKENS_PER_REQUEST \div 4)

LinesChunk(file_path, file_type, name_suffix, current_lines, current_tokens) ==
    Chunk(<<Unit(file_path \o PathSuffix(name_suffix), JoinLines(current_lines), file_type)>>,
          current_tokens, "lines")

TruncatedChunk(file_path, file_type, line) ==
    Chunk(<<Unit(file_path \o <<" (truncated)">>, TruncatedLine(line), file_type)>>,
          _count_tokens(TruncatedLine(line)), "truncated")

SplitLineStep(st, line, file_path, file_type, name_suffix) ==
    LET line_tokens == _count_tokens(line \o <<NL>>)
    IN  IF st.current_tokens + line_tokens > MAX_TOKENS_PER_REQUEST
        THEN IF st.current_lines /= <<>>
             THEN [chunks |-> Append(st.chunks,
                                     LinesChunk(file_path, file_type, name_suffix,
                                                st.current_lines, st.current_tokens)),
                   current_lines |-> <<line>>,
                   current_tokens |-> line_tokens]
             ELSE [st EXCEPT !.chunks =
                       Append(@, TruncatedChunk(file_path, file_type, line))]
        ELSE [st EXCEPT !.current_lines = Append(@, line),
                        !.current_tokens = @ + line_tokens]

RECURSIVE SplitLineLoop(_, _, _, _, _)
SplitLineLoop(st, lines, file_path, file_type, name_suffix) ==
    IF lines = <<>> THEN st
    ELSE SplitLineLoop(SplitLineStep(st, Head(lines), file_path, file_type, name_suffix),
                       Tail(lines), file_path, file_type, name_suffix)

_split_by_lines(file_path, content, file_type, chunks0, name_suffix) ==
    LET st == SplitLineLoop([chunks |-> chunks0, current_lines |-> <<>>,
                             current_tokens |-> 0],
                            SplitLines(content), file_path, file_type, name_suffix)
    IN  IF st.current_lines /= <<>>
        THEN Append(st.chunks,
                    LinesChunk(file_path, file_type, name_suffix,
                               st.current_lines, st.current_tokens))
        ELSE st.chunks

(***************************************************************************)
(* _split_large_file.                                                      *)
(***************************************************************************)
\* (node.lineno, node.end_lineno, f"def {node.name}") of each function node
FunctionItems(content) ==
    LET ns == WalkFunctionDefs(content)
    IN  [i \in 1..Len(ns) |-> [start |-> ns[i].lineno, end |-> ns[i].end_lineno,
                               name |-> <<"def ">> \o ns[i].name]]

\* (node.lineno, node.end_lineno, f"class {node.name}") of each class node
ClassItems(content) ==
    LET ns == WalkClassDefs(content)
    IN  [i \in 1..Len(ns) |-> [start |-> ns[i].lineno, end |-> ns[i].end_lineno,
                               name |-> <<"class ">> \o ns[i].name]]

\* sorted(functions + classes, key=lambda x: x[0])
AllItems(content) ==
    LET both == FunctionItems(content) \o ClassItems(content)
    IN  StableSort(both, [i \in 1..Len(both) |-> both[i].start])

\* The body of the loop over all_items (lines 216-226).
SplitItemStep(chunks0, item, lines, file_path, file_type) ==
    LET chunk_content == JoinLines(SubSeq(lines, item.start, item.end))
        display == file_path \o <<" (">> \o item.name \o <<")">>
        chunk_tokens == _count_tokens(Framed(display, chunk_content))
    IN  IF chunk_tokens > MAX_TOKENS_PER_REQUEST
        THEN _split_by_lines(file_path, chunk_content, file_type, chunks0, item.name)
        ELSE Append(chunks0, Chunk(<<Unit(display, chunk_content, file_type)>>,
                                   chunk_tokens, "ast"))

RECURSIVE SplitItemLoop(_, _, _, _, _)
SplitItemLoop(chunks0, items, lines, file_path, file_type) ==
    IF items = <<>> THEN chunks0
    ELSE SplitItemLoop(SplitItemStep(chunks0, Head(items), lines, file_path, file_type),
                       Tail(items), lines, file_path, file_type)

_split_large_file(file_path, content, file_type, chunks0) ==
    IF file_type = "code" /\ EndsWith(file_path, <<".py">>) /\ ~ParseFails(content)
    THEN SplitItemLoop(chunks0, AllItems(content), SplitLines(content),
                       file_path, file_type)
    ELSE _split_by_lines(file_path, content, file_type, chunks0, <<>>)

(***************************************************************************)
(* The repository filesystem.  A repository root is a set of files, each   *)
(* {path, binary, content}: path is the path relative to the root, with    *)
(* "/" between its components; binary says that reading the file as UTF-8  *)
(* raises UnicodeDecodeError.                                              *)
(***************************************************************************)
File(path, binary, content) == [path |-> path, binary |-> binary, content |-> content]

\* os.path.exists(os.path.join(repo_path, file_path))
Exists(repo, file_path) == \E f \in repo : f.path = file_path

FileAt(repo, file_path) == CHOOSE f \in repo : f.path = file_path

(***************************************************************************)
(* _create_chunks: one iteration of the loop over file_paths (the state is *)
(* the chunk list, current_chunk_files and current_chunk_tokens), the      *)
(* loop, and the flush of the last chunk.                                  *)
(***************************************************************************)
\* current_chunk_tokens + file_tokens > MAX_TOKENS_PER_REQUEST (line 184)
\* The test of line 184 without the tokens of the file.
ExceedsBudgetWithoutFile(current_chunk_tokens, file_tokens) ==
    current_chunk_tokens > MAX_TOKENS_PER_REQUEST

\* Line 184 closing the chunk as soon as it has started.
ExceedsBudgetWhenStarted(current_chunk_tokens, file_tokens) ==
    current_chunk_tokens > 0

ExceedsBudget(current_chunk_tokens, file_tokens) ==
    current_chunk_tokens + file_tokens > MAX_TOKENS_PER_REQUEST

CreateChunksStep(st, file_path, code, docs) ==
    IF ~Exists(code, file_path) /\ ~Exists(docs, file_path) THEN st
    ELSE
    LET file_type == IF Exists(code, file_path) THEN "code" ELSE "doc"
        file == IF Exists(code, file_path) THEN FileAt(code, file_path)
                ELSE FileAt(docs, file_path)
        content == file.content
        file_tokens == _count_tokens(Framed(file_path, content))
        flushed == IF st.current_chunk_files /= <<>>
                   THEN Append(st.chunks, Chunk(st.current_chunk_files,
                                                st.current_chunk_tokens, "whole"))
                   ELSE st.chunks
        unit == Unit(file_path, content, file_type)
    IN  IF file.binary THEN st
        ELSE IF file_tokens > MAX_TOKENS_PER_REQUEST
        THEN [chunks |-> _split_large_file(file_path, content, file_type, flushed),
              current_chunk_files |-> <<>>,
              current_chunk_tokens |-> 0]
        ELSE IF ExceedsBudget(st.current_chunk_tokens, file_tokens)
        THEN [chunks |-> Append(st.chunks, Chunk(st.current_chunk_files,
                                                 st.current_chunk_tokens, "whole")),
              current_chunk_files |-> <<unit>>,
              current_chunk_tokens |-> file_tokens]
        ELSE [st EXCEPT !.current_chunk_files = Append(@, unit),
                        !.current_chunk_tokens = @ + file_tokens]

\* The loop of line 150 taking the paths from the last to the first.
RECURSIVE CreateChunksLoopReversed(_, _, _, _)
CreateChunksLoopReversed(st, paths, code, docs) ==
    IF paths = <<>> THEN st
    ELSE CreateChunksStep(CreateChunksLoopReversed(st, Tail(paths), code, docs),
                          Head(paths), code, docs)

RECURSIVE CreateChunksLoop(_, _, _, _)
CreateChunksLoop(st, paths, code, docs) ==
    IF paths = <<>> THEN st
    ELSE CreateChunksLoop(CreateChunksStep(st, Head(paths), code, docs),
                          Tail(paths), code, docs)

\* _create_chunks without the test of line 193: the accumulator is appended
\* after the loop whether it holds a file or not.
_create_chunks_without_last_test(paths, code, docs) ==
    LET st == CreateChunksLoop([chunks |-> <<>>, current_chunk_files |-> <<>>,
                                current_chunk_tokens |-> 0], paths, code, docs)
    IN  Append(st.chunks, Chunk(st.current_chunk_files, st.current_chunk_tokens, "whole"))

_create_chunks(paths, code, docs) ==
    LET st == CreateChunksLoop([chunks |-> <<>>, current_chunk_files |-> <<>>,
                                current_chunk_tokens |-> 0], paths, code, docs)
    IN  IF st.current_chunk_files /= <<>>
        THEN Append(st.chunks, Chunk(st.current_chunk_files,
                                     st.current_chunk_tokens, "whole"))
        ELSE st.chunks

(***************************************************************************)
(* RepoStructure, as _extract_code_structure returns it: "files" is a dict *)
(* (here the sequence of its values, in insertion order) of                *)
(* {relative_path, directory}, and "imports" maps the relative path of a   *)
(* source file with imports to its import strings.                         *)
(***************************************************************************)
EmptyStructure == [files |-> <<>>, imports |-> <<>>]

FileInfo(relative_path, directory) ==
    [relative_path |-> relative_path, directory |-> directory]

\* "root", the directory of the files at the repository root (line 69)
RootDir == <<"r", "o", "o", "t">>

\* file1 in code_structure["imports"], then code_structure["imports"][file1]
ImportsOf(structure, file) ==
    IF \E k \in DOMAIN structure.imports : structure.imports[k].file = file
    THEN (CHOOSE e \in { structure.imports[k] : k \in DOMAIN structure.imports } :
              e.file = file).names
    ELSE {}

\* str.replace(a, b) for one-character a
Replace(text, a, b) == [i \in 1..Len(text) |-> IF text[i] = a THEN b ELSE text[i]]

(***************************************************************************)
(* _group_files_semantically.  file_groups is the dict: keys, in insertion *)
(* order, and the set of files of each key.                                *)
(***************************************************************************)
EmptyGroups == [keys |-> <<>>, files |-> <<>>]

\* dir in file_groups
Live(fg, dir) == \E k \in 1..Len(fg.keys) : fg.keys[k] = dir

FilesOf(fg, dir) == fg.files[CHOOSE k \in 1..Len(fg.keys) : fg.keys[k] = dir]

\* file_groups[directory].add(file_path) on the defaultdict (lines 103-105)
AddToGroup(fg, directory, file_path) ==
    IF Live(fg, directory)
    THEN [fg EXCEPT !.files[CHOOSE k \in 1..Len(fg.keys) : fg.keys[k] = directory]
                        = @ \cup {file_path}]
    ELSE [keys |-> Append(fg.keys, directory), files |-> Append(fg.files, {file_path})]

RECURSIVE InitialGroups(_, _)
InitialGroups(fg, files) ==
    IF files = <<>> THEN fg
    ELSE InitialGroups(AddToGroup(fg, Head(files).directory, Head(files).relative_path),
                       Tail(files))

\* The test of line 124 on one import of file1.
ImportMatches(import_path, dir2) ==
    \/ StartsWith(import_path, Replace(dir2, "/", "."))
    \/ StartsWith(import_path, Replace(dir2, "\\", "."))

\* Lines 121-126 for one file1: some import of file1 matches dir2.
FileImportsDir(structure, file1, dir2) ==
    \E import_path \in ImportsOf(structure, file1) : ImportMatches(import_path, dir2)

(***************************************************************************)
(* One pass of lines 111-130.  While groups_to_merge is empty the loops    *)
(* look for the first pair (dir1, dir2), dir1 before dir2 in group_keys,   *)
(* with a file of dir1 importing dir2.  Once a pair is found, the breaks   *)
(* of lines 127-130 leave the loops over file1 and dir2 but not the loop   *)
(* over dir1: for each later dir1 the pass still looks at its next key     *)
(* and at the first file that the iteration over the set file_groups[dir1] *)
(* yields, and appends that pair if the file imports it.  Any file of the  *)
(* set may be the first, so a pass has a set of possible results.          *)
(***************************************************************************)
FirstPairs(structure, fg) ==
    { ij \in (1..Len(fg.keys)) \X (1..Len(fg.keys)) :
        /\ ij[1] < ij[2]
        /\ \E file1 \in fg.files[ij[1]] : FileImportsDir(structure, file1, fg.keys[ij[2]]) }

FirstPair(structure, fg) ==
    CHOOSE ij \in FirstPairs(structure, fg) :
        \A kl \in FirstPairs(structure, fg) :
            ij[1] < kl[1] \/ (ij[1] = kl[1] /\ ij[2] <= kl[2])

\* The pairs appended for the keys from the k-th on, for each choice of the
\* first file of each set.
RECURSIVE LaterPairs(_, _, _)
LaterPairs(structure, fg, k) ==
    IF k >= Len(fg.keys) THEN { <<>> }
    ELSE { (IF FileImportsDir(structure, file1, fg.keys[k + 1])
            THEN << <<fg.keys[k], fg.keys[k + 1]>> >> ELSE <<>>) \o later :
              file1 \in fg.files[k], later \in LaterPairs(structure, fg, k + 1) }

\* The values that groups_to_merge may have after the pass.
ScanGroups(structure, fg) ==
    IF FirstPairs(structure, fg) = {} THEN { <<>> }
    ELSE LET ij == FirstPair(structure, fg)
         IN  { << <<fg.keys[ij[1]], fg.keys[ij[2]]>> >> \o later :
                 later \in LaterPairs(structure, fg, ij[1] + 1) }

\* Line 135 without the del of line 136.
\* Lines 135-136 without the update: the group of dir2 is deleted and its
\* files go nowhere.
MergeGroupsWithoutUpdate(fg, dir1, dir2) ==
    LET keep == { k \in 1..Len(fg.keys) : fg.keys[k] /= dir2 }
        Nth(r) == CHOOSE k \in keep : Cardinality({ j \in keep : j < k }) = r - 1
    IN  [keys  |-> [r \in 1..Cardinality(keep) |-> fg.keys[Nth(r)]],
         files |-> [r \in 1..Cardinality(keep) |-> fg.files[Nth(r)]]]

MergeGroupsWithoutDel(fg, dir1, dir2) ==
    [fg EXCEPT !.files[CHOOSE k \in 1..Len(fg.keys) : fg.keys[k] = dir1]
                   = @ \cup FilesOf(fg, dir2)]

\* file_groups[dir1].update(file_groups[dir2]); del file_groups[dir2]
MergeGroups(fg, dir1, dir2) ==
    LET merged == [fg EXCEPT !.files[CHOOSE k \in 1..Len(fg.keys) : fg.keys[k] = dir1]
                                 = @ \cup FilesOf(fg, dir2)]
        keep == { k \in 1..Len(fg.keys) : fg.keys[k] /= dir2 }
        Nth(r) == CHOOSE k \in keep : Cardinality({ j \in keep : j < k }) = r - 1
    IN  [keys  |-> [r \in 1..Cardinality(keep) |-> merged.keys[Nth(r)]],
         files |-> [r \in 1..Cardinality(keep) |-> merged.files[Nth(r)]]]

\* The lists that list(files) may give for a set of files.
Orderings(S) ==
    { seq \in [1..Cardinality(S) -> S] : \A i, j \in 1..Cardinality(S) :
                                           i /= j => seq[i] /= seq[j] }

\* [list(files) for files in file_groups.values()], from the k-th group on
RECURSIVE GroupListsFrom(_, _)
GroupListsFrom(fg, k) ==
    IF k > Len(fg.keys) THEN { <<>> }
    ELSE { <<files>> \o rest : files \in Orderings(fg.files[k]),
                               rest \in GroupListsFrom(fg, k + 1) }

GroupLists(fg) == GroupListsFrom(fg, 1)

\* Lines 100-108.
GroupStart ==
    /\ pc = "group_start"
    /\ file_groups' = InitialGroups(EmptyGroups, code_structure.files)
    /\ changed' = TRUE
    /\ pc' = "group_while"
    /\ UNCHANGED <<code_repo, docs_repo, code_structure, groups_to_merge, merges, groups,
                   file_paths, split_in, chunks, mainVars>>

\* Lines 109-130: the loop test and, when it holds, one pass over the pairs.
GroupScan ==
    /\ pc = "group_while"
    /\ changed
    /\ changed' = FALSE
    /\ groups_to_merge' \in ScanGroups(code_structure, file_groups)
    /\ pc' = "group_merge"
    /\ UNCHANGED <<code_repo, docs_repo, code_structure, file_groups, merges, groups,
                   file_paths, split_in, chunks, mainVars>>

\* Lines 133-137: one iteration of the loop over groups_to_merge.
GroupMerge ==
    /\ pc = "group_merge"
    /\ groups_to_merge /= <<>>
    /\ LET dir1 == Head(groups_to_merge)[1]
           dir2 == Head(groups_to_merge)[2]
       IN  IF Live(file_groups, dir1) /\ Live(file_groups, dir2)
           THEN /\ file_groups' = MergeGroups(file_groups, dir1, dir2)
                /\ changed' = TRUE
                /\ merges' = merges + 1
           ELSE UNCHANGED <<file_groups, changed, merges>>
    /\ groups_to_merge' = Tail(groups_to_merge)
    /\ UNCHANGED <<pc, code_repo, docs_repo, code_structure, groups,
                   file_paths, split_in, chunks, mainVars>>

\* The loop over groups_to_merge ends: back to the test of line 109.
GroupMerged ==
    /\ pc = "group_merge"
    /\ groups_to_merge = <<>>
    /\ pc' = "group_while"
    /\ UNCHANGED <<code_repo, docs_repo, groupVars, file_paths, split_in, chunks, mainVars>>

\* Line 139, reached when the test of line 109 fails.
GroupReturn ==
    /\ pc = "group_while"
    /\ ~changed
    /\ groups' \in GroupLists(file_groups)
    /\ pc' = "grouped"
    /\ UNCHANGED <<code_repo, docs_repo, code_structure, file_groups, groups_to_merge,
                   changed, merges, file_paths, split_in, chunks, mainVars>>

(***************************************************************************)
(* JSON values, as json.loads returns them: None, a number, a bool, a str  *)
(* (a text), a list or a dict (a record: its keys are the field names).    *)
(***************************************************************************)
JNull == [t |-> "null"]
JNum(n) == [t |-> "num", v |-> n]
JBool(b) == [t |-> "bool", v |-> b]
JStr(text) == [t |-> "str", v |-> text]
JList(seq) == [t |-> "list", v |-> seq]
JObj(rec) == [t |-> "obj", v |-> rec]

IsStr(j, text) == j.t = "str" /\ j.v = text

\* Python's `sub in text` on two str
Substring(sub, text) ==
    \E i \in 0..(Len(text) - Len(sub)) : SubSeq(text, i + 1, i + Len(sub)) = sub

\* `key in value` raises TypeError: the value is no container.
InRaises(j) == j.t \in {"null", "num", "bool"}

\* `key in value` for a dict (its keys), a list (its elements), a str (its
\* substrings); key is a str literal of the program.
In(key, j) ==
    CASE j.t = "obj"  -> key \in DOMAIN j.v
      [] j.t = "list" -> \E i \in 1..Len(j.v) : IsStr(j.v[i], <<key>>)
      [] j.t = "str"  -> Substring(<<key>>, j.v)
      [] OTHER        -> FALSE

\* value.get(key, default) of a dict
Get(j, key, default) == IF key \in DOMAIN j.v THEN j.v[key] ELSE default

\* iter(value) raises TypeError.
NotIterable(j) == j.t \in {"null", "num", "bool"}

\* list(value): the elements of a list, the characters of a str, the keys
\* of a dict.
Elements(j) ==
    CASE j.t = "list" -> j.v
      [] j.t = "str"  -> [i \in 1..Len(j.v) |-> JStr(<<j.v[i]>>)]
      [] j.t = "obj"  -> LET keys == CHOOSE seq \in [1..Cardinality(DOMAIN j.v) -> DOMAIN j.v] :
                                        \A a, b \in 1..Cardinality(DOMAIN j.v) :
                                            a /= b => seq[a] /= seq[b]
                         IN  [i \in 1..Len(keys) |-> JStr(<<keys[i]>>)]
      [] OTHER        -> <<>>

\* hash(value) raises TypeError.
Unhashable(j) == j.t \in {"list", "obj"}

(***************************************************************************)
(* _analyze_chunk.  The model call is the environment: it raises, or       *)
(* returns content that json.loads rejects, or returns content that        *)
(* json.loads turns into a JSON value.                                     *)
(***************************************************************************)
Raises == [kind |-> "raises"]
NotJson == [kind |-> "not_json"]
Returns(value) == [kind |-> "json", value |-> value]

\* [f["path"] for f in chunk["files"]]
UnitPaths(chunk) == [i \in 1..Len(chunk.files) |-> JStr(chunk.files[i].path)]

\* The dict of lines 293-297.
ErrorRecord(chunk, outcome) ==
    JObj([error |-> JStr(<<outcome.kind>>),
          files_analyzed |-> JList(UnitPaths(chunk)),
          structured |-> JBool(FALSE)])

\* The handler of lines 291-297 without the paths of the chunk.
_analyze_chunk_without_paths(chunk, outcome) ==
    IF outcome.kind = "json" THEN outcome.value
    ELSE JObj([error |-> JStr(<<outcome.kind>>),
               files_analyzed |-> JList(<<>>),
               structured |-> JBool(FALSE)])

_analyze_chunk(chunk, outcome) ==
    IF outcome.kind = "json" THEN outcome.value ELSE ErrorRecord(chunk, outcome)

(***************************************************************************)
(* synthesize_results.  The result is what the function returns, or        *)
(* raised = TRUE when a statement of it raises (TypeError, AttributeError) *)
(***************************************************************************)
SynthesisRaised ==
    [raised |-> TRUE, summary |-> [files |-> 0, gaps |-> 0, critical |-> 0, high |-> 0],
     gaps |-> <<>>, files_analyzed |-> {}]

\* "error" in result or "gaps" not in result (line 342)
Skipped(result) == In("error", result) \/ ~In("gaps", result)

\* Lines 342-346 for one result; acc is (raised, all_gaps, files_analyzed).
SynthesizeStep(acc, result) ==
    IF acc.raised THEN acc
    ELSE IF InRaises(result) THEN [acc EXCEPT !.raised = TRUE]
    ELSE IF Skipped(result) THEN acc
    ELSE IF result.t /= "obj" THEN [acc EXCEPT !.raised = TRUE]
    ELSE LET analyzed == Get(result, "files_analyzed", JList(<<>>))
             gaps == result.v.gaps
         IN  IF \/ NotIterable(analyzed)
                \/ \E i \in 1..Len(Elements(analyzed)) : Unhashable(Elements(analyzed)[i])
                \/ NotIterable(gaps)
             THEN [acc EXCEPT !.raised = TRUE]
             ELSE [acc EXCEPT
                     !.files_analyzed = @ \cup { Elements(analyzed)[i] :
                                                   i \in 1..Len(Elements(analyzed)) },
                     !.all_gaps = @ \o Elements(gaps)]

RECURSIVE SynthesizeLoop(_, _)
SynthesizeLoop(acc, results) ==
    IF results = <<>> THEN acc
    ELSE SynthesizeLoop(SynthesizeStep(acc, Head(results)), Tail(results))

\* x.get("severity", "low") raises: x is no dict.
SeverityRaises(gap) ==
    gap.t /= "obj" \/ Unhashable(Get(gap, "severity", JStr(<<"low">>)))

\* severity_order.get(x.get("severity", "low"), 3) (lines 349-350)
SeverityRank(gap) ==
    LET severity == Get(gap, "severity", JStr(<<"low">>))
    IN  CASE IsStr(severity, <<"critical">>) -> 0
          [] IsStr(severity, <<"high">>)     -> 1
          [] IsStr(severity, <<"medium">>)   -> 2
          [] OTHER                           -> 3

\* A sort by the same key that reverses the gaps of equal rank.
SortGapsTiesReversed(all_gaps) ==
    LET n == Len(all_gaps)
        reversed == [i \in 1..n |-> all_gaps[n + 1 - i]]
    IN  StableSort(reversed, [i \in 1..n |-> SeverityRank(reversed[i])])

\* all_gaps.sort(key=...)
SortGaps(all_gaps) ==
    StableSort(all_gaps, [i \in 1..Len(all_gaps) |-> SeverityRank(all_gaps[i])])

\* sum(1 for gap in all_gaps if gap.get("severity") == severity)
CountSeverity(all_gaps, severity) ==
    Cardinality({ i \in 1..Len(all_gaps) :
                    IsStr(Get(all_gaps[i], "severity", JNull), <<severity>>) })

\* sorted(list(files_analyzed)) raises: two elements do not compare.
NotSortable(S) ==
    LET Order(j) == IF j.t = "bool" THEN "num" ELSE j.t
    IN  \E a, b \in S : a /= b /\ (Order(a) /= Order(b) \/ a.t \in {"null", "obj"})

synthesize_results(results) ==
    LET acc == SynthesizeLoop([raised |-> FALSE, all_gaps |-> <<>>, files_analyzed |-> {}],
                              results)
    IN  IF acc.raised THEN SynthesisRaised
        ELSE IF \E i \in 1..Len(acc.all_gaps) : SeverityRaises(acc.all_gaps[i])
        THEN SynthesisRaised
        ELSE IF NotSortable(acc.files_analyzed) THEN SynthesisRaised
        ELSE LET all_gaps == SortGaps(acc.all_gaps)
             IN  [raised |-> FALSE,
                  summary |-> [files |-> Cardinality(acc.files_analyzed),
                               gaps |-> Len(all_gaps),
                               critical |-> CountSeverity(all_gaps, "critical"),
                               high |-> CountSeverity(all_gaps, "high")],
                  gaps |-> all_gaps,
                  files_analyzed |-> acc.files_analyzed]

(***************************************************************************)
(* generate_markdown_report.  The report is the sequence of its blocks: a  *)
(* block is the text that one `report +=` of the function adds.            *)
(***************************************************************************)
SeverityNames == <<"critical", "high", "medium", "low">>

\* severity.title()
Title(severity) ==
    CASE severity = "critical" -> "Critical"
      [] severity = "high"     -> "High"
      [] severity = "medium"   -> "Medium"
      [] severity = "low"      -> "Low"

\* Lines 381-385.
GapBlock(gap) ==
    [block |-> "gap",
     file |-> Get(gap, "file", JStr(<<"N/A">>)),
     type |-> Get(gap, "type", JStr(<<"N/A">>)),
     description |-> Get(gap, "description", JStr(<<"No description">>)),
     suggested_change |-> Get(gap, "suggested_change", JStr(<<"No suggestion">>))]

\* gaps_by_severity[severity], in the order of results['gaps'] (lines 372-375)
GapsOfSeverity(gaps, severity) ==
    LET keep == { i \in 1..Len(gaps) :
                    IsStr(Get(gaps[i], "severity", JStr(<<"low">>)), <<severity>>) }
        Nth(r) == CHOOSE k \in keep : Cardinality({ j \in keep : j < k }) = r - 1
    IN  [r \in 1..Cardinality(keep) |-> gaps[Nth(r)]]

\* Lines 378-385 for one severity.
SeveritySection(gaps, severity) ==
    LET mine == GapsOfSeverity(gaps, severity)
    IN  IF mine = <<>> THEN <<>>
        ELSE <<[block |-> "severity", title |-> Title(severity)]>>
             \o [i \in 1..Len(mine) |-> GapBlock(mine[i])]

\* generate_markdown_report without the else branch of line 386.
generate_markdown_report_without_else(results) ==
    <<[block |-> "title"], [block |-> "summary", summary |-> results.summary]>>
    \o <<[block |-> "identified_gaps"]>>
    \o Flatten([k \in 1..Len(SeverityNames) |->
                   SeveritySection(results.gaps, SeverityNames[k])])

generate_markdown_report(results) ==
    <<[block |-> "title"], [block |-> "summary", summary |-> results.summary]>>
    \o (IF results.gaps /= <<>>
        THEN <<[block |-> "identified_gaps"]>>
             \o Flatten([k \in 1..Len(SeverityNames) |->
                            SeveritySection(results.gaps, SeverityNames[k])])
        ELSE <<[block |-> "no_gaps_found"]>>)

(***************************************************************************)
(* _extract_code_structure.  A path is split at "/" into the names of its  *)
(* directories and the name of the file.                                   *)
(***************************************************************************)
RECURSIVE SplitPathFrom(_, _)
SplitPathFrom(path, cur) ==
    IF path = <<>> THEN <<cur>>
    ELSE IF Head(path) = "/" THEN <<cur>> \o SplitPathFrom(Tail(path), <<>>)
    ELSE SplitPathFrom(Tail(path), Append(cur, Head(path)))

Components(path) == SplitPathFrom(path, <<>>)

\* The names of the directories above the file, and the name of the file.
DirNamesOf(path) == SubSeq(Components(path), 1, Len(Components(path)) - 1)
FileNameOf(path) == Components(path)[Len(Components(path))]

\* name.startswith('.')
StartsWithDot(name) == name /= <<>> /\ name[1] \in {".", ".py", ".md"}

\* ['node_modules', '__pycache__', 'venv', 'env', '.git'] (line 53)
IgnoredDirs ==
    { <<"n", "o", "d", "e", "_", "m", "o", "d", "u", "l", "e", "s">>,
      <<"_", "_", "p", "y", "c", "a", "c", "h", "e", "_", "_">>,
      <<"v", "e", "n", "v">>, <<"e", "n", "v">>, <<".", "g", "i", "t">> }

\* The filter of line 53 keeps the directory.
DirKept(d) == ~StartsWithDot(d) /\ d \notin IgnoredDirs

\* The filter of line 53 applied to the directory that holds the file only.
WalkedParentOnly(path) ==
    /\ DirNamesOf(path) /= <<>> => DirKept(DirNamesOf(path)[Len(DirNamesOf(path))])
    /\ ~StartsWithDot(FileNameOf(path))

\* os.walk reaches the directory of the file, and line 60 keeps the file.
Walked(path) ==
    /\ \A k \in 1..Len(DirNamesOf(path)) : DirKept(DirNamesOf(path)[k])
    /\ ~StartsWithDot(FileNameOf(path))

\* os.path.relpath(root, repo_path) as a text, "root" at the top (line 69)
RECURSIVE JoinPath(_)
JoinPath(names) ==
    IF names = <<>> THEN <<>>
    ELSE IF Len(names) = 1 THEN names[1]
    ELSE names[1] \o <<"/">> \o JoinPath(Tail(names))

DirectoryOf(path) ==
    IF DirNamesOf(path) = <<>> THEN RootDir ELSE JoinPath(DirNamesOf(path))

\* The import statements of the dialect: <<"i">> \o name is `import name`
\* and <<"j", module, name>> is `from module import name`, at any depth.
ImportOfLine(line) ==
    LET st == Stripped(line)
    IN  IF Len(st) >= 2 /\ st[1] = "i" THEN {Tail(st)}
        ELSE IF Len(st) = 3 /\ st[1] = "j" THEN {<<st[2], ".", st[3]>>}
        ELSE {}

\* Lines 74-88: the imports recorded for a file (none when it is no .py
\* file, does not decode or does not parse).
ImportsIn(file) ==
    IF EndsWith(file.path, <<".py">>) /\ ~file.binary /\ ~ParseFails(file.content)
    THEN UNION { ImportOfLine(SplitLines(file.content)[k]) :
                   k \in 1..Len(SplitLines(file.content)) }
    ELSE {}

\* dir is path's directory or above it.
Under(path, dir) ==
    Len(dir) <= Len(DirNamesOf(path)) /\ SubSeq(DirNamesOf(path), 1, Len(dir)) = dir

\* The orders in which os.walk (top-down) may yield the files: the files of
\* a directory before those of its subdirectories, each subtree in one run.
WalkOrders(repo) ==
    LET walked == { f \in repo : Walked(f.path) }
        dirs == UNION { { SubSeq(DirNamesOf(f.path), 1, n) : n \in 0..Len(DirNamesOf(f.path)) } :
                          f \in walked }
    IN  { seq \in Orderings(walked) :
            /\ \A i, j \in 1..Len(seq) :
                  (/\ Under(seq[j].path, DirNamesOf(seq[i].path))
                   /\ DirNamesOf(seq[j].path) /= DirNamesOf(seq[i].path)) => i < j
            /\ \A d \in dirs : \A i, j, k \in 1..Len(seq) :
                  (i < j /\ j < k /\ Under(seq[i].path, d) /\ Under(seq[k].path, d))
                      => Under(seq[j].path, d) }

StructureFrom(seq) ==
    [files   |-> [k \in 1..Len(seq) |-> FileInfo(seq[k].path, DirectoryOf(seq[k].path))],
     imports |-> Flatten([k \in 1..Len(seq) |->
                    IF ImportsIn(seq[k]) = {} THEN <<>>
                    ELSE << [file |-> seq[k].path, names |-> ImportsIn(seq[k])] >>])]

\* The structures that _extract_code_structure may return for a repository.
_extract_code_structure(repo) == { StructureFrom(seq) : seq \in WalkOrders(repo) }

(***************************************************************************)
(* main(): the credentials.  A variable of the environment is unset        *)
(* (os.environ.get gives None) or set to a text, which may be empty.       *)
(***************************************************************************)
Unset == [none |-> TRUE, text |-> <<>>]
SetTo(text) == [none |-> FALSE, text |-> text]

\* bool(value) of None or a str
Truthy(value) == ~value.none /\ value.text /= <<>>

\* any(...) in the place of all(...) at line 404.
AnyCredentialPresent(c) ==
    Truthy(c.api_key) \/ Truthy(c.endpoint) \/ Truthy(c.deployment_name)

\* all([api_key, endpoint, deployment_name]) (line 404)
CredentialsPresent(c) ==
    Truthy(c.api_key) /\ Truthy(c.endpoint) /\ Truthy(c.deployment_name)

NoResults ==
    [raised |-> FALSE, summary |-> [files |-> 0, gaps |-> 0, critical |-> 0, high |-> 0],
     gaps |-> <<>>, files_analyzed |-> {}]

\* No stub is installed and no run came before.
NoStub == "none"
NoPrevious == [runs |-> 0, report |-> <<>>, code_structure |-> EmptyStructure, groups |-> <<>>]

RerunIdle == stub = NoStub /\ previous = NoPrevious

MainIdle ==
    /\ RerunIdle
    /\ creds = [api_key |-> Unset, endpoint |-> Unset, deployment_name |-> Unset]
    /\ outcomes = <<>>
    /\ chunk_results = <<>>
    /\ final_results = NoResults
    /\ report = <<>>
    /\ exit_status = -1

GroupIdle ==
    /\ code_structure = EmptyStructure
    /\ file_groups = EmptyGroups
    /\ groups_to_merge = <<>>
    /\ changed = FALSE
    /\ merges = 0
    /\ groups = <<>>

(***************************************************************************)
(* GroupSpec: _group_files_semantically called on a RepoStructure.  The    *)
(* structure has up to MaxDirs directories, in any order; a directory      *)
(* holds one file, with one import or none, and one directory at most      *)
(* holds a second file, without imports.                                   *)
(***************************************************************************)
DirNames == { RootDir, <<"p">>, <<"q">>, <<"p", "/", "q">> }

ImportNames == { <<"p", ".", "q", ".", "x">>,    \* p.q.x
                 <<"r", "o", "o", "t", "s">> }   \* roots

\* os.path.join(rel_dir, file), the relative path of a file
PathIn(dir, name) == IF dir = RootDir THEN name ELSE dir \o <<"/">> \o name

DirShapes == { {} } \cup { {i} : i \in ImportNames }

DirFileInfos(dir, two) ==
    <<FileInfo(PathIn(dir, <<"a", ".py">>), dir)>>
    \o (IF two THEN <<FileInfo(PathIn(dir, <<"b", ".py">>), dir)>> ELSE <<>>)

DirImports(dir, names) ==
    IF names = {} THEN <<>>
    ELSE << [file |-> PathIn(dir, <<"a", ".py">>), names |-> names] >>

StructureOf(dirs, shapes, second) ==
    [files   |-> Flatten([k \in 1..Len(dirs) |-> DirFileInfos(dirs[k], k = second)]),
     imports |-> Flatten([k \in 1..Len(dirs) |-> DirImports(dirs[k], shapes[k])])]

Structures(max_dirs) ==
    UNION { { StructureOf(dss[1], dss[2], dss[3]) :
                dss \in { ds \in [1..n -> DirNames] :
                            \A i, j \in 1..n : i /= j => ds[i] /= ds[j] }
                        \X [1..n -> DirShapes] \X (0..n) } : n \in 0..max_dirs }

GroupInit ==
    /\ pc = "group_start"
    /\ code_structure \in Structures(MaxDirs)
    /\ file_groups = EmptyGroups
    /\ groups_to_merge = <<>>
    /\ changed = FALSE
    /\ merges = 0
    /\ groups = <<>>
    /\ code_repo = {} /\ docs_repo = {} /\ file_paths = <<>>
    /\ split_in = [path |-> <<>>, content |-> <<>>, type |-> "code"]
    /\ chunks = <<>>
    /\ MainIdle

GroupNext == GroupStart \/ GroupScan \/ GroupMerge \/ GroupMerged \/ GroupReturn

GroupSpec == GroupInit /\ [][GroupNext]_vars

\* The function keeps running until it returns.
GroupFairSpec == GroupSpec /\ WF_vars(GroupNext)

(***************************************************************************)
(* Inputs: the lines a file may hold and the contents built from them.     *)
(***************************************************************************)
LineVocabulary ==
    { <<"d", "f">>,                  \* def f
      <<"c", "A">>,                  \* class A
      <<" ", "d", "m">>,             \* a method, or a nested function
      <<" ", "W">>,                  \* a statement of a body
      <<"W", "W">>,                  \* a top-level statement
      <<"W", "W", "W", "W", "x">>,   \* a line over the budget on its own
      <<>>,                          \* an empty line
      <<"?">> }                      \* a syntax error

Contents == { JoinLines(ls) : ls \in SeqsOf(LineVocabulary, 1, MaxLines) }

PyPath == <<"a", ".py">>
MdPath == <<"a", ".md">>

Oversized(path, content) ==
    _count_tokens(Framed(path, content)) > MAX_TOKENS_PER_REQUEST

(***************************************************************************)
(* SplitSpec: _split_large_file called, as _create_chunks calls it, on a   *)
(* file whose framed token count is over the budget.                       *)
(***************************************************************************)
SplitInputs ==
    { f \in [path : {PyPath, MdPath}, content : Contents, type : {"code", "doc"}] :
        Oversized(f.path, f.content) }

NoFile == [path |-> <<>>, content |-> <<>>, type |-> "code"]

SplitInit ==
    /\ pc = "split_call"
    /\ split_in \in SplitInputs
    /\ chunks = <<>>
    /\ code_repo = {} /\ docs_repo = {} /\ file_paths = <<>>
    /\ GroupIdle
    /\ MainIdle

SplitLargeFile ==
    /\ pc = "split_call"
    /\ chunks' = _split_large_file(split_in.path, split_in.content, split_in.type, chunks)
    /\ pc' = "split_done"
    /\ UNCHANGED <<code_repo, docs_repo, groupVars, file_paths, split_in, mainVars>>

SplitNext == SplitLargeFile

SplitSpec == SplitInit /\ [][SplitNext]_vars

(***************************************************************************)
(* ChunkSpec: _create_chunks called on a list of paths.  The two roots     *)
(* hold the files below: files that pack together and files that do not,   *)
(* oversized files of each kind, a binary file, a path under both roots    *)
(* and a path under neither.  The file w.py is any content at all, under   *)
(* either root, alone in the list or beside one other file.                *)
(***************************************************************************)
Text(lines) == JoinLines(lines)
LongLine == <<"W", "W", "W", "W", "x">>

CodeFixture ==
    { File(<<"a", ".py">>, FALSE, Text(<< <<"d", "f">> >>)),
      File(<<"b", ".py">>, FALSE, Text(<< <<"W", "W">> >>)),
      File(<<"c", ".md">>, FALSE, Text(<< <<" ", "W">> >>)),
      File(<<"g", ".py">>, FALSE, Text(<< <<"d", "f">>, <<"W", "W">>, <<"W", "W">> >>)),
      File(<<"e", ".py">>, FALSE, Text(<< <<"?">>, <<"W", "W">>, <<"W", "W">> >>)),
      File(<<"n", ".py">>, TRUE, <<>>),
      File(<<"o", ".md">>, FALSE, Text(<< <<"x">> >>)) }

DocsFixture ==
    { File(<<"d", ".md">>, FALSE, Text(<< <<"W">> >>)),
      File(<<"l", ".md">>, FALSE, Text(<< LongLine, <<"W", "W">>, LongLine >>)),
      File(<<"o", ".md">>, FALSE, Text(<< <<"W", "W">> >>)) }

MissingPath == <<"z", ".md">>

FixturePaths ==
    { f.path : f \in CodeFixture } \cup { f.path : f \in DocsFixture } \cup {MissingPath}

WildPath == <<"w", ".py">>

WildNeighbours == { <<"a", ".py">>, <<"b", ".py">>, <<"l", ".md">> }

WildLists ==
    { <<WildPath>> } \cup { <<p, WildPath>> : p \in WildNeighbours }
                     \cup { <<WildPath, p>> : p \in WildNeighbours }

ChunkInit ==
    /\ pc = "chunk_call"
    /\ chunks = <<>>
    /\ split_in = NoFile
    /\ GroupIdle
    /\ MainIdle
    /\ \/ /\ code_repo = CodeFixture
          /\ docs_repo = DocsFixture
          /\ file_paths \in SeqsOf(FixturePaths, 0, MaxFiles)
       \/ \E content \in Contents :
             /\ \/ code_repo = CodeFixture \cup {File(WildPath, FALSE, content)}
                   /\ docs_repo = DocsFixture
                \/ code_repo = CodeFixture
                   /\ docs_repo = DocsFixture \cup {File(WildPath, FALSE, content)}
             /\ file_paths \in WildLists

CreateChunks ==
    /\ pc = "chunk_call"
    /\ chunks' = _create_chunks(file_paths, code_repo, docs_repo)
    /\ pc' = "chunk_done"
    /\ UNCHANGED <<code_repo, docs_repo, groupVars, file_paths, split_in, mainVars>>

ChunkNext == CreateChunks

ChunkSpec == ChunkInit /\ [][ChunkNext]_vars

(***************************************************************************)
(* SynthSpec: synthesize_results called on a list of per-chunk results,    *)
(* then generate_markdown_report on what it returns.  The gaps are drawn   *)
(* from GapCatalogue, up to MaxGaps of them, and are spread over two       *)
(* results; between the two there may be a result of another kind.         *)
(***************************************************************************)
Severity(name) == JStr(<<name>>)

Gap(file, severity) == JObj([file |-> JStr(file), severity |-> severity])

GapCatalogue ==
    { Gap(<<"a", ".py">>, Severity("critical")),
      Gap(<<"a", ".py">>, Severity("high")),
      Gap(<<"b", ".py">>, Severity("medium")),
      Gap(<<"a", ".py">>, Severity("low")),
      JObj([file |-> JStr(<<"c", ".md">>)]) }

GapsResult(gaps, paths) ==
    JObj([gaps |-> JList(gaps), files_analyzed |-> JList(paths)])

\* An error record, a result with an error and gaps, a result without
\* gaps, a result without files_analyzed whose gaps have an unknown
\* severity and a low one, and a result whose gaps are no objects.
OtherResults ==
    { JObj([error |-> JStr(<<"raises">>),
            files_analyzed |-> JList(<<JStr(<<"a", ".py">>)>>),
            structured |-> JBool(FALSE)]),
      JObj([error |-> JStr(<<"partial">>),
            gaps |-> JList(<<Gap(<<"a", ".py">>, Severity("critical"))>>)]),
      JObj([summary |-> JStr(<<"fine">>)]),
      JObj([gaps |-> JList(<<Gap(<<"b", ".py">>, Severity("urgent")),
                             Gap(<<"b", ".py">>, Severity("low"))>>)]),
      JObj([gaps |-> JList(<<JStr(<<"stale">>)>>)]) }

\* One result with the severities low, critical, medium, high.
ExampleResults ==
    << GapsResult(<<Gap(<<"a", ".py">>, Severity("low")),
                    Gap(<<"a", ".py">>, Severity("critical")),
                    Gap(<<"b", ".py">>, Severity("medium")),
                    Gap(<<"a", ".py">>, Severity("high"))>>,
                  <<JStr(<<"a", ".py">>)>>) >>

\* The results that hold the gaps gs, the first k of them in the first
\* result, with the results mid in between.
ResultList(gs, k, mid) ==
    <<GapsResult(SubSeq(gs, 1, k), <<JStr(<<"a", ".py">>)>>)>> \o mid
    \o <<GapsResult(SubSeq(gs, k + 1, Len(gs)),
                    <<JStr(<<"a", ".py">>), JStr(<<"b", ".py">>)>>)>>

SynthInit ==
    /\ pc = "synth_call"
    /\ \/ chunk_results = ExampleResults
       \/ \E gs \in SeqsOf(GapCatalogue, 0, MaxGaps) : \E k \in 0..Len(gs) :
             \E mid \in { <<>> } \cup { <<r>> : r \in OtherResults } :
                chunk_results = ResultList(gs, k, mid)
    /\ creds = [api_key |-> Unset, endpoint |-> Unset, deployment_name |-> Unset]
    /\ outcomes = <<>>
    /\ final_results = NoResults
    /\ report = <<>>
    /\ exit_status = -1
    /\ RerunIdle
    /\ code_repo = {} /\ docs_repo = {} /\ file_paths = <<>>
    /\ split_in = NoFile
    /\ chunks = <<>>
    /\ GroupIdle

SynthesizeResults ==
    /\ pc = "synth_call"
    /\ final_results' = synthesize_results(chunk_results)
    /\ pc' = IF final_results'.raised THEN "synth_raised" ELSE "synth_done"
    /\ UNCHANGED <<code_repo, docs_repo, groupVars, file_paths, split_in, chunks,
                   stub, previous, creds, outcomes, chunk_results, report, exit_status>>

GenerateReport ==
    /\ pc = "synth_done"
    /\ report' = generate_markdown_report(final_results)
    /\ pc' = "report_done"
    /\ UNCHANGED <<code_repo, docs_repo, groupVars, file_paths, split_in, chunks,
                   stub, previous, creds, outcomes, chunk_results, final_results, exit_status>>

SynthNext == SynthesizeResults \/ GenerateReport

SynthSpec == SynthInit /\ [][SynthNext]_vars

(***************************************************************************)
(* Spec: a run of main().  The environment gives the three credentials,    *)
(* the two repositories and, for each chunk, the outcome of the model      *)
(* call.                                                                   *)
(***************************************************************************)
CredentialValues == { Unset, SetTo(<<>>), SetTo(<<"k">>) }

Credentials ==
    [api_key : CredentialValues, endpoint : CredentialValues,
     deployment_name : CredentialValues]

EmptyRepo == {}

\* a.py imports q.x, beside the package q, a hidden file and the file of a
\* directory that the walk leaves out.
SmallRepo ==
    { File(<<"a", ".py">>, FALSE, Text(<< <<"i", "q", ".", "x">>, <<"W">> >>)),
      File(<<"q", "/", "b", ".py">>, FALSE, Text(<< <<"d", "f">> >>)),
      File(<<".", "h", ".py">>, FALSE, Text(<< <<"W">> >>)),
      File(<<"v", "e", "n", "v", "/", "v", ".py">>, FALSE, Text(<< <<"W">> >>)) }

\* g.py is over the budget and parses: a function, a function nested in
\* it, and a statement at the top level.
LargeRepo ==
    { File(<<"g", ".py">>, FALSE,
           Text(<< <<"d", "f">>, <<" ", "d", "m">>, <<" ", " ", "W">>, <<"W", "W">> >>)),
      File(<<"n", ".py">>, TRUE, <<>>) }

CodeRepos == { EmptyRepo, SmallRepo, LargeRepo }

DocsRepo ==
    { File(<<"d", ".md">>, FALSE, Text(<< <<"W">> >>)),
      File(<<"a", ".py">>, FALSE, Text(<< <<"W", "W">> >>)),
      File(<<".", "h", ".md">>, FALSE, Text(<< <<"W">> >>)) }

DocsRepos == { EmptyRepo, DocsRepo }

\* What the model call may do for a chunk.
ModelOutcomes ==
    { Raises,
      NotJson,
      Returns(JNull),
      Returns(JNum(5)),
      Returns(JStr(<<"no ", "gaps">>)),
      Returns(JObj([summary |-> JStr(<<"fine">>)])),
      Returns(JObj([gaps |-> JList(<<>>)])),
      Returns(JObj([gaps |-> JNum(5)])),
      Returns(JObj([gaps |-> JList(<<JStr(<<"stale">>)>>)])),
      Returns(JObj([gaps |-> JList(<<Gap(<<"a", ".py">>, JList(<<>>))>>)])),
      Returns(GapsResult(<<Gap(<<"a", ".py">>, Severity("low")),
                           Gap(<<"a", ".py">>, Severity("critical"))>>,
                         <<JStr(<<"a", ".py">>)>>)),
      Returns(GapsResult(<<Gap(<<"b", ".py">>, JNum(5))>>, <<JStr(<<"b", ".py">>)>>)) }

Init ==
    /\ pc = "main"
    /\ creds \in Credentials
    /\ code_repo \in CodeRepos
    /\ docs_repo \in DocsRepos
    /\ outcomes = <<>>
    /\ chunk_results = <<>>
    /\ final_results = NoResults
    /\ report = <<>>
    /\ exit_status = -1
    /\ RerunIdle
    /\ file_paths = <<>>
    /\ split_in = NoFile
    /\ chunks = <<>>
    /\ GroupIdle

\* Lines 399-409: sys.exit(1) unless the three credentials are truthy.
CheckCredentials ==
    /\ pc = "main"
    /\ IF CredentialsPresent(creds)
       THEN pc' = "extract" /\ UNCHANGED exit_status
       ELSE pc' = "exited" /\ exit_status' = 1
    /\ UNCHANGED <<code_repo, docs_repo, groupVars, file_paths, split_in, chunks,
                   stub, previous, creds, outcomes, chunk_results, final_results, report>>

\* Line 412: the structure of the code repository.  A run that follows
\* another on the unchanged tree is given the directory listings in the
\* same order, so the same structure.
ExtractStructure ==
    /\ pc = "extract"
    /\ code_structure' \in IF previous.runs = 0 THEN _extract_code_structure(code_repo)
                            ELSE {previous.code_structure}
    /\ pc' = "group_start"
    /\ UNCHANGED <<code_repo, docs_repo, file_groups, groups_to_merge, changed, merges,
                   groups, file_paths, split_in, chunks, mainVars>>

\* all_chunks after the loop of lines 420-422
RECURSIVE AllChunks(_, _, _)
AllChunks(gs, code, docs) ==
    IF gs = <<>> THEN <<>>
    ELSE _create_chunks(Head(gs), code, docs) \o AllChunks(Tail(gs), code, docs)

\* Lines 419-423.
CreateAllChunks ==
    /\ pc = "grouped"
    /\ chunks' = AllChunks(groups, code_repo, docs_repo)
    /\ pc' = "analyze"
    /\ UNCHANGED <<code_repo, docs_repo, groupVars, file_paths, split_in, mainVars>>

\* The iteration of lines 427-430 calling the model again, for the same
\* chunk, when the call has raised.
AnalyzeChunkRetrying ==
    /\ pc = "analyze"
    /\ Len(chunk_results) < Len(chunks)
    /\ \E outcome \in ModelOutcomes :
          /\ outcomes' = Append(outcomes, outcome)
          /\ chunk_results' =
                IF outcome = Raises /\ Len(outcomes) = Len(chunk_results)
                THEN chunk_results
                ELSE Append(chunk_results,
                            _analyze_chunk(chunks[Len(chunk_results) + 1], outcome))
    /\ UNCHANGED <<pc, code_repo, docs_repo, groupVars, file_paths, split_in, chunks,
                   stub, previous, creds, final_results, report, exit_status>>

\* Lines 427-430: one iteration of the loop over all_chunks.
AnalyzeChunk ==
    /\ pc = "analyze"
    /\ Len(chunk_results) < Len(chunks)
    /\ \E outcome \in ModelOutcomes :
          /\ outcomes' = Append(outcomes, outcome)
          /\ chunk_results' =
                Append(chunk_results, _analyze_chunk(chunks[Len(chunk_results) + 1], outcome))
    /\ UNCHANGED <<pc, code_repo, docs_repo, groupVars, file_paths, split_in, chunks,
                   stub, previous, creds, final_results, report, exit_status>>

\* Line 433, after the loop; an exception of it ends the process.
Synthesize ==
    /\ pc = "analyze"
    /\ Len(chunk_results) = Len(chunks)
    /\ final_results' = synthesize_results(chunk_results)
    /\ IF final_results'.raised
       THEN pc' = "crashed" /\ exit_status' = 1
       ELSE pc' = "report" /\ UNCHANGED exit_status
    /\ UNCHANGED <<code_repo, docs_repo, groupVars, file_paths, split_in, chunks,
                   stub, previous, creds, outcomes, chunk_results, report>>

\* Lines 436-441: the report is written and main returns.
WriteReport ==
    /\ pc = "report"
    /\ report' = generate_markdown_report(final_results)
    /\ pc' = "done"
    /\ exit_status' = 0
    /\ UNCHANGED <<code_repo, docs_repo, groupVars, file_paths, split_in, chunks,
                   stub, previous, creds, outcomes, chunk_results, final_results>>

(***************************************************************************)
(* RerunSpec: main() run twice on the same pair of repositories, with the  *)
(* credentials set and the model call replaced by a deterministic stub.    *)
(* The second run starts from scratch; only the iteration order of the     *)
(* sets of file_groups is free in it.                                      *)
(***************************************************************************)
Stubs == { "constant", "by_chunk" }

\* The response of the stub: the same for every call, or a function of the
\* chunk (a gap on its first unit, the paths of its units).
StubOutcome(kind, chunk) ==
    IF kind = "constant"
    THEN Returns(GapsResult(<<Gap(<<"a", ".py">>, Severity("low"))>>, <<JStr(<<"a", ".py">>)>>))
    ELSE Returns(GapsResult(<<Gap(chunk.files[1].path, Severity("low"))>>, UnitPaths(chunk)))

\* Three files of one directory: a.py and b.py fit one chunk together,
\* c.py fills one alone.
PackRepo ==
    { File(<<"a", ".py">>, FALSE, Text(<< <<"W">> >>)),
      File(<<"b", ".py">>, FALSE, Text(<< <<"W">> >>)),
      File(<<"c", ".py">>, FALSE, Text(<< <<"W", "W", "W">> >>)) }

RerunInit ==
    /\ pc = "main"
    /\ creds = [api_key |-> SetTo(<<"k">>), endpoint |-> SetTo(<<"k">>),
                deployment_name |-> SetTo(<<"k">>)]
    /\ code_repo \in { SmallRepo, LargeRepo, PackRepo }
    /\ docs_repo \in DocsRepos
    /\ stub \in Stubs
    /\ previous = NoPrevious
    /\ outcomes = <<>>
    /\ chunk_results = <<>>
    /\ final_results = NoResults
    /\ report = <<>>
    /\ exit_status = -1
    /\ file_paths = <<>>
    /\ split_in = NoFile
    /\ chunks = <<>>
    /\ GroupIdle

\* Lines 427-430 with the stub in the place of the model call.
AnalyzeChunkWithStub ==
    /\ pc = "analyze"
    /\ Len(chunk_results) < Len(chunks)
    /\ LET outcome == StubOutcome(stub, chunks[Len(chunk_results) + 1])
       IN  /\ outcomes' = Append(outcomes, outcome)
           /\ chunk_results' =
                 Append(chunk_results, _analyze_chunk(chunks[Len(chunk_results) + 1], outcome))
    /\ UNCHANGED <<pc, code_repo, docs_repo, groupVars, file_paths, split_in, chunks,
                   stub, previous, creds, final_results, report, exit_status>>

\* The process has ended; main() is started again on the same repositories.
Rerun ==
    /\ pc = "done"
    /\ previous.runs = 0
    /\ previous' = [runs |-> 1, report |-> report, code_structure |-> code_structure,
                    groups |-> groups]
    /\ pc' = "main"
    /\ code_structure' = EmptyStructure
    /\ file_groups' = EmptyGroups
    /\ groups_to_merge' = <<>>
    /\ changed' = FALSE
    /\ merges' = 0
    /\ groups' = <<>>
    /\ chunks' = <<>>
    /\ outcomes' = <<>>
    /\ chunk_results' = <<>>
    /\ final_results' = NoResults
    /\ report' = <<>>
    /\ exit_status' = -1
    /\ UNCHANGED <<code_repo, docs_repo, file_paths, split_in, creds, stub>>

RerunNext ==
    \/ CheckCredentials
    \/ ExtractStructure
    \/ GroupStart
    \/ GroupScan
    \/ GroupMerge
    \/ GroupMerged
    \/ GroupReturn
    \/ CreateAllChunks
    \/ AnalyzeChunkWithStub
    \/ Synthesize
    \/ WriteReport
    \/ Rerun

RerunSpec == RerunInit /\ [][RerunNext]_vars

(***************************************************************************)
(* ExtractSpec: _extract_code_structure called on a repository tree of up  *)
(* to MaxFiles files: files at the top and in directories two and three    *)
(* deep, hidden files, hidden directories, directories of the ignore list, *)
(* files that do not parse or do not decode.                               *)
(***************************************************************************)
TreeFiles ==
    { File(<<"a", ".py">>, FALSE, Text(<< <<"i", "q", ".", "x">>, <<"W">> >>)),
      File(<<"b", ".py">>, FALSE, Text(<< <<"i", "q">>, <<"?">> >>)),
      File(<<"n", ".py">>, TRUE, <<>>),
      File(<<"m", ".md">>, FALSE, Text(<< <<"W">> >>)),
      File(<<"e", "n", "v">>, FALSE, Text(<< <<"W">> >>)),
      File(<<".", "h", ".py">>, FALSE, Text(<< <<"i", "q">> >>)),
      File(<<"q", "/", "c", ".py">>, FALSE, Text(<< <<"j", "m", "n">> >>)),
      File(<<"q", "/", ".", "e", ".py">>, FALSE, Text(<< <<"W">> >>)),
      File(<<"q", "/", "r", "/", "d", ".py">>, FALSE, Text(<< <<"d", "f">>, <<" ", "i", "q">> >>)),
      File(<<".", "s", "/", "f", ".py">>, FALSE, Text(<< <<"W">> >>)),
      File(<<"q", "/", "v", "e", "n", "v", "/", "v", ".py">>, FALSE, Text(<< <<"W">> >>)),
      File(<<"q", "/", ".", "t", "/", "u", "/", "g", ".py">>, FALSE, Text(<< <<"W">> >>)),
      File(<<"e", "n", "v", "/", "r", "/", "k", ".md">>, FALSE, Text(<< <<"W">> >>)) }

Trees(max_files) == { t \in SUBSET TreeFiles : Cardinality(t) <= max_files }

ExtractInit ==
    /\ pc = "extract_call"
    /\ code_repo \in Trees(MaxFiles)
    /\ docs_repo = {} /\ file_paths = <<>>
    /\ split_in = NoFile
    /\ chunks = <<>>
    /\ chunk_results = <<>>
    /\ GroupIdle
    /\ MainIdle

ExtractCodeStructure ==
    /\ pc = "extract_call"
    /\ code_structure' \in _extract_code_structure(code_repo)
    /\ pc' = "extract_done"
    /\ UNCHANGED <<code_repo, docs_repo, file_groups, groups_to_merge, changed, merges,
                   groups, file_paths, split_in, chunks, mainVars>>

ExtractNext == ExtractCodeStructure

ExtractSpec == ExtractInit /\ [][ExtractNext]_vars

Next ==
    \/ CheckCredentials
    \/ ExtractStructure
    \/ GroupStart
    \/ GroupScan
    \/ GroupMerge
    \/ GroupMerged
    \/ GroupReturn
    \/ CreateAllChunks
    \/ AnalyzeChunk
    \/ Synthesize
    \/ WriteReport

Spec == Init /\ [][Next]_vars

(***************************************************************************)
(*                              PROPERTIES                                 *)
(***************************************************************************)
LineTokens(line) == _count_tokens(line \o <<NL>>)

IsTruncatedChunk(c) == EndsWith(c.files[1].path, <<" (truncated)">>)

\* _split_large_file takes the branch of lines 201-227 and returns from it.
SplitByAst(f) ==
    f.type = "code" /\ EndsWith(f.path, <<".py">>) /\ ~ParseFails(f.content)

\* The lines held by the chunks of cs, in emission order, each with whether
\* its chunk is labelled (truncated).
EmittedLines(cs) ==
    Flatten([i \in 1..Len(cs) |->
        LET ls == SplitLines(cs[i].files[1].content)
        IN  [k \in 1..Len(ls) |-> [line |-> ls[k], truncated |-> IsTruncatedChunk(cs[i])]]])

RoundTrip(cs, content) ==
    LET orig == SplitLines(content)
        em == EmittedLines(cs)
    IN  /\ Len(em) = Len(orig)
        /\ \A i \in 1..Len(em) :
              \/ em[i].line = orig[i]
              \/ em[i].truncated /\ StartsWith(orig[i], em[i].line)

\* C1: every chunk returned by _create_chunks records tokens within the
\* budget, except a chunk of the line-based fallback that holds one line.
C1_ChunkTokensWithinBudget ==
    pc = "chunk_done" =>
        \A k \in 1..Len(chunks) :
            \/ chunks[k].tokens <= MAX_TOKENS_PER_REQUEST
            \/ /\ chunks[k].via \in {"lines", "truncated"}
               /\ Len(chunks[k].files) = 1
               /\ Len(SplitLines(chunks[k].files[1].content)) = 1

\* A list whose chunks are a packed chunk of two files at the budget's edge,
\* chunks of a split file within budget, and a one-line chunk over it.
C1_Witness ==
    /\ pc = "chunk_done"
    /\ \E k \in 1..Len(chunks) :
          chunks[k].via = "whole" /\ Len(chunks[k].files) = 2
    /\ \E k \in 1..Len(chunks) :
          chunks[k].via = "lines" /\ chunks[k].tokens > MAX_TOKENS_PER_REQUEST
    /\ \E k \in 1..Len(chunks) :
          chunks[k].via = "lines" /\ chunks[k].tokens <= MAX_TOKENS_PER_REQUEST

\* C2: the lines held by the chunks that _split_large_file appends for an
\* oversized file, concatenated in emission order, are the lines of the
\* file, each once and none missing, a chunk labelled (truncated) holding a
\* prefix of its line; for a parseable source file and for any other file.
C2_SplitterRoundTrip ==
    pc = "split_done" => RoundTrip(chunks, split_in.content)

\* What holds of C2: the round trip of the files split by lines (not of the
\* source dialect, or failing to parse).
C2_LineSplitRoundTrip ==
    (pc = "split_done" /\ ~SplitByAst(split_in)) => RoundTrip(chunks, split_in.content)

\* C3: in a run of main, once the chunks are built, every non-hidden text
\* file of the documentation repository is held (whole or as fragments) by
\* a unit of origin doc of some chunk.
C3_DocsFilesReachChunks ==
    pc \in {"analyze", "report", "done", "crashed"} =>
        \A f \in docs_repo :
            (Walked(f.path) /\ ~f.binary) =>
                \E k \in 1..Len(chunks) : \E u \in 1..Len(chunks[k].files) :
                    /\ chunks[k].files[u].type = "doc"
                    /\ StartsWith(chunks[k].files[u].path, f.path)

\* What the code does for C3: the paths come from the code repository
\* alone, so every unit of every chunk of a run has origin code.
C3_OnlyCodeFilesReachChunks ==
    \A k \in 1..Len(chunks) : \A u \in 1..Len(chunks[k].files) :
        /\ chunks[k].files[u].type = "code"
        /\ \E f \in code_repo : StartsWith(chunks[k].files[u].path, f.path)

\* C4: with the three credentials present, no model outcome aborts the
\* process before the report is written.
C4_NoOutcomeAbortsRun ==
    (\A name \in DOMAIN creds : Truthy(creds[name])) => pc /= "crashed"

\* A JSON value that synthesize_results and generate_markdown_report work
\* on without raising: an object without gaps, or one whose gaps are a list
\* of objects with hashable severities and whose files_analyzed, if any, is
\* a list of strings.
WellFormedResult(value) ==
    /\ value.t = "obj"
    /\ ("gaps" \in DOMAIN value.v /\ "error" \notin DOMAIN value.v) =>
          /\ value.v.gaps.t = "list"
          /\ \A i \in 1..Len(value.v.gaps.v) :
                /\ value.v.gaps.v[i].t = "obj"
                /\ "severity" \in DOMAIN value.v.gaps.v[i].v =>
                      value.v.gaps.v[i].v.severity.t \notin {"list", "obj"}
          /\ "files_analyzed" \in DOMAIN value.v =>
                /\ value.v.files_analyzed.t = "list"
                /\ \A i \in 1..Len(value.v.files_analyzed.v) :
                      value.v.files_analyzed.v[i].t = "str"

\* What the code does for C4: the run aborts only in synthesis, and only
\* when some model call returned a JSON value that is not such a result.
C4_AbortsOnlyOnOtherJson ==
    pc = "crashed" =>
        /\ Len(chunk_results) = Len(chunks)
        /\ \E k \in 1..Len(outcomes) :
              outcomes[k].kind = "json" /\ ~WellFormedResult(outcomes[k].value)

\* The number of directory groups that lines 100-105 build.
InitialGroupCount == Len(InitialGroups(EmptyGroups, code_structure.files).keys)

\* C5 (as stated): the total number of merges performed is at most the
\* initial number of directory groups minus one, for every RepoStructure.
C5_MergesAtMostGroupsMinusOne ==
    merges <= InitialGroupCount - 1

\* Each merge removes exactly one live group.
MergeRemovesOneGroup ==
    (file_groups' /= file_groups /\ pc = "group_merge") =>
        /\ Len(file_groups'.keys) = Len(file_groups.keys) - 1
        /\ merges' = merges + 1

\* The live groups and the merges add up to the initial groups, so the
\* merges are initial - 1 at most when there is a group, and none otherwise.
MergesBounded ==
    /\ pc /= "group_start" => Len(file_groups.keys) + merges = InitialGroupCount
    /\ InitialGroupCount >= 1 => merges <= InitialGroupCount - 1
    /\ InitialGroupCount = 0 => merges = 0

\* A bound on the steps that the call may still take: the passes that the
\* live groups allow, each of a scan, a merge step for each pair and the
\* end of the merge loop.
StepsLeft ==
    LET pass == Len(code_structure.files) + 3
        live == Len(file_groups.keys)
    IN  CASE pc = "group_start" -> (Len(code_structure.files) + 2) * pass
          [] pc = "group_while" -> IF changed THEN (live + 1) * pass ELSE 1
          [] pc = "group_merge" ->
                IF changed THEN (live + 1) * pass + Len(groups_to_merge) + 1
                ELSE live * pass + Len(groups_to_merge) + 2
          [] OTHER -> 0

\* C5: _group_files_semantically terminates (until it returns a step is
\* possible, and each step lowers StepsLeft), each merge removes exactly one
\* live group, and the merges are at most the initial number of groups
\* minus one when the structure has a group, and none when it has no file.
C5_GrouperTerminates ==
    /\ [](MergesBounded /\ StepsLeft >= 0 /\ (pc = "grouped" \/ ENABLED GroupNext))
    /\ [][MergeRemovesOneGroup /\ StepsLeft' < StepsLeft]_vars

\* Under weak fairness of the steps of the call, it returns.
GrouperReturns == <>(pc = "grouped")

\* Three directory groups merged into one by two merges.
C5_Witness ==
    /\ pc = "grouped"
    /\ InitialGroupCount = 3
    /\ merges = 2
    /\ Len(groups) = 1

\* The definitions of the file that are top-level (col_offset 0), as the
\* items of lines 207-213.
TopLevelItems(content) ==
    LET lines == SplitLines(content)
        tops == { i \in 1..Len(lines) : IsHeader(lines[i]) /\ Indent(lines[i]) = 0 }
        items == AllItems(content)
        keep == { k \in 1..Len(items) : items[k].start \in tops }
        Nth(r) == CHOOSE k \in keep : Cardinality({ j \in keep : j < k }) = r - 1
    IN  [r \in 1..Cardinality(keep) |-> items[Nth(r)]]

\* C6: for an oversized file of the parseable dialect that parses,
\* _split_large_file emits chunks for the top-level function and class
\* definitions only, in ascending start-line order (one chunk `path (def
\* name)` or `path (class name)` for each one under budget); a method or a
\* nested definition yields no chunk of its own.
C6_TopLevelDefinitionsOnly ==
    (pc = "split_done" /\ SplitByAst(split_in)) =>
        chunks = SplitItemLoop(<<>>, TopLevelItems(split_in.content),
                               SplitLines(split_in.content),
                               split_in.path, split_in.type)

\* The scenario of C6 that the code meets: no nested definition in the file.
C6_WithoutNestedDefinitions ==
    (pc = "split_done" /\ SplitByAst(split_in)
        /\ Len(TopLevelItems(split_in.content)) = Len(AllItems(split_in.content))) =>
        chunks = SplitItemLoop(<<>>, TopLevelItems(split_in.content),
                               SplitLines(split_in.content),
                               split_in.path, split_in.type)

\* The rank of a gap in the order critical, high, medium, low; a gap with
\* another severity, or none, ranks with low.
ClaimedRank(gap) ==
    LET severity == IF "severity" \in DOMAIN gap.v THEN gap.v.severity ELSE JStr(<<"low">>)
    IN  CASE severity = JStr(<<"critical">>) -> 0
          [] severity = JStr(<<"high">>)     -> 1
          [] severity = JStr(<<"medium">>)   -> 2
          [] OTHER                           -> 3

\* The gaps of the results without an error key and with a gaps key, in
\* the order of the results.
EligibleGaps(results) ==
    Flatten([i \in 1..Len(results) |->
        IF "error" \notin DOMAIN results[i].v /\ "gaps" \in DOMAIN results[i].v
        THEN results[i].v.gaps.v ELSE <<>>])

OfRank(gaps, rank) ==
    LET HasRank(gap) == ClaimedRank(gap) = rank
    IN  SelectSeq(gaps, HasRank)

\* C7: the gaps returned by synthesize_results are the gaps of the results
\* without an error key and with a gaps key, none added and none dropped,
\* ordered by severity rank (critical, high, medium, low), the gaps of one
\* rank in the order of their chunks.
C7_GapsSortedBySeverity ==
    pc \in {"synth_done", "report_done"} =>
        LET eligible == EligibleGaps(chunk_results)
        IN  final_results.gaps = OfRank(eligible, 0) \o OfRank(eligible, 1)
                                    \o OfRank(eligible, 2) \o OfRank(eligible, 3)

\* The severities low, critical, medium, high come out as critical, high,
\* medium, low.
C7_Witness ==
    /\ pc = "synth_done"
    /\ chunk_results = ExampleResults
    /\ [i \in 1..Len(final_results.gaps) |-> final_results.gaps[i].v.severity]
          = <<Severity("critical"), Severity("high"), Severity("medium"), Severity("low")>>

\* The error record of a chunk: error, the display paths of the units of
\* the chunk, structured false.
IsErrorRecord(result, chunk) ==
    /\ result.t = "obj"
    /\ DOMAIN result.v = {"error", "files_analyzed", "structured"}
    /\ result.v.error.t = "str"
    /\ result.v.files_analyzed
          = JList([u \in 1..Len(chunk.files) |-> JStr(chunk.files[u].path)])
    /\ result.v.structured = JBool(FALSE)

CallFailed(outcome) == outcome.kind \in {"raises", "not_json"}

LacksGaps(outcome) ==
    outcome.kind = "json" /\ outcome.value.t = "obj" /\ "gaps" \notin DOMAIN outcome.value.v

SomeCredentialMissing ==
    \E name \in DOMAIN creds : creds[name].none \/ creds[name].text = <<>>

\* C9: if any of the three credentials is absent or empty, main exits with
\* a non-zero status before any core work: no extraction, grouping, chunk
\* building, model call or report write happens.
C9_NoWorkWithoutCredentials ==
    SomeCredentialMissing =>
        /\ pc \in {"main", "exited"}
        /\ pc = "exited" => exit_status = 1
        /\ pc = "main" => exit_status = -1
        /\ GroupIdle
        /\ chunks = <<>>
        /\ outcomes = <<>> /\ chunk_results = <<>>
        /\ final_results = NoResults
        /\ report = <<>>

\* The run has exited with status 1: the key and the deployment name are
\* set and the endpoint is the empty string.
C9_Witness ==
    /\ pc = "exited"
    /\ exit_status = 1
    /\ creds = [api_key |-> SetTo(<<"k">>), endpoint |-> SetTo(<<>>),
                deployment_name |-> SetTo(<<"k">>)]

\* C10: in line-based splitting, every line whose own token count (line plus
\* terminator) exceeds the budget is emitted as its own chunk labelled
\* (truncated), holding its first MAX_TOKENS_PER_REQUEST // 4 characters,
\* and no chunk holds such a line untruncated.
C10_EveryLongLineTruncated ==
    (pc = "split_done" /\ ~SplitByAst(split_in)) =>
        LET orig == SplitLines(split_in.content)
            long == { i \in 1..Len(orig) : LineTokens(orig[i]) > MAX_TOKENS_PER_REQUEST }
            trunc == { k \in 1..Len(chunks) : IsTruncatedChunk(chunks[k]) }
        IN  /\ \A k \in (1..Len(chunks)) \ trunc :
                  \A l \in 1..Len(SplitLines(chunks[k].files[1].content)) :
                      LineTokens(SplitLines(chunks[k].files[1].content)[l])
                          <= MAX_TOKENS_PER_REQUEST
            /\ Cardinality(trunc) = Cardinality(long)
            /\ \A k \in trunc :
                  \E i \in long : chunks[k].files[1].content = TruncatedLine(orig[i])

\* What the code does for C10: a long line met with an empty buffer is
\* truncated; one met with lines in the buffer is emitted whole.
C10_TruncatedOnlyOnEmptyBuffer ==
    (pc = "split_done" /\ ~SplitByAst(split_in)) =>
        \A k \in 1..Len(chunks) :
            \/ IsTruncatedChunk(chunks[k])
            \/ chunks[k].tokens <= MAX_TOKENS_PER_REQUEST
            \/ /\ Len(SplitLines(chunks[k].files[1].content)) = 1
               /\ k > 1 /\ ~IsTruncatedChunk(chunks[k - 1])

\* C11: two runs of main on the same unchanged pair of repositories, with a
\* deterministic model stub, write identical reports, whatever order the
\* runtime gives to the iteration of the sets.
C11_RerunWritesSameReport ==
    (pc = "done" /\ previous.runs = 1) => report = previous.report

\* What the code does for C11: the reports of the two runs are identical
\* when the grouper returns the same lists, in the same order, in both.
C11_SameReportForSameGroups ==
    (pc = "done" /\ previous.runs = 1 /\ groups = previous.groups) =>
        report = previous.report

RECURSIVE FramedTokens(_)
FramedTokens(files) ==
    IF files = <<>> THEN 0
    ELSE _count_tokens(Framed(files[1].path, files[1].content)) + FramedTokens(Tail(files))

\* C12: every chunk of the chunk builder or the splitter (whole-file,
\* function/class, line-split and truncated chunks alike) records as tokens the
\* sum, over its units, of the token count of the unit framed as
\* "File: <display path>\n\n<content>".
C12_TokensAreFramedCounts ==
    \A k \in 1..Len(chunks) : chunks[k].tokens = FramedTokens(chunks[k].files)

\* What the code does for C12: the recorded tokens are the framed counts for
\* the chunks of whole files and of functions and classes; a chunk of lines
\* records the sum of the counts of its lines, each with its newline, and a
\* truncated chunk the count of the truncated line, both without the frame.
C12_WholeAndAstChunksAreFramedCounts ==
    \A k \in 1..Len(chunks) :
        chunks[k].via \in {"whole", "ast"} =>
            chunks[k].tokens = FramedTokens(chunks[k].files)

\* The gap entries of a report, in the order of the report.
RenderedGaps(blocks) ==
    LET IsGap(b) == b.block = "gap"
    IN  SelectSeq(blocks, IsGap)

\* The severity headings of a report, in the order of the report.
RenderedHeadings(blocks) ==
    LET IsHeading(b) == b.block = "severity"
        headings == SelectSeq(blocks, IsHeading)
    IN  [i \in 1..Len(headings) |-> headings[i].title]

\* The headings are some of Critical, High, Medium, Low, in that order.
HeadingsInOrder(titles) ==
    LET Position(t) == CHOOSE k \in 1..4 : Title(SeverityNames[k]) = t
    IN  \A i, j \in 1..Len(titles) : i < j => Position(titles[i]) < Position(titles[j])

\* The severity under which the report files a gap is one of the four names.
HasNamedSeverity(gap) ==
    \E k \in 1..Len(SeverityNames) :
        IsStr(Get(gap, "severity", JStr(<<"low">>)), <<SeverityNames[k]>>)

\* C13: when the synthesized gap list is not empty, the report renders every
\* gap of the list exactly once, under a severity heading, the headings in the
\* order Critical, High, Medium, Low, so that the number of rendered entries is
\* the gap count of the summary, whatever severity the model returned.
C13_EveryGapRenderedOnce ==
    (pc = "report_done" /\ final_results.gaps /= <<>>) =>
        /\ RenderedGaps(report)
              = [i \in 1..Len(final_results.gaps) |-> GapBlock(final_results.gaps[i])]
        /\ Len(RenderedGaps(report)) = final_results.summary.gaps
        /\ HeadingsInOrder(RenderedHeadings(report))
        /\ report[4].block = "severity"

\* What the code does for C13: the report renders, once each and under
\* headings in the order Critical, High, Medium, Low, the gaps whose severity
\* (low when the key is missing) is one of the four names; a gap with any
\* other severity is counted in the summary and rendered nowhere.
C13_NamedSeveritiesRenderedOnce ==
    (pc = "report_done" /\ final_results.gaps /= <<>>) =>
        /\ RenderedGaps(report)
              = LET named == SelectSeq(final_results.gaps, HasNamedSeverity)
                IN  [i \in 1..Len(named) |-> GapBlock(named[i])]
        /\ HeadingsInOrder(RenderedHeadings(report))

\* The report has a block of the kind.
HasBlock(blocks, kind) == \E i \in 1..Len(blocks) : blocks[i].block = kind

\* C14: the report of an empty gap list has the "No Gaps Found" section and no
\* severity subsection; the report of a gap list that is not empty has no
\* "No Gaps Found" section.
C14_NoGapsFoundIffEmpty ==
    pc = "report_done" =>
        /\ final_results.gaps = <<>> =>
               /\ HasBlock(report, "no_gaps_found")
               /\ ~HasBlock(report, "severity")
               /\ ~HasBlock(report, "gap")
        /\ final_results.gaps /= <<>> => ~HasBlock(report, "no_gaps_found")

\* A report written for three results none of which contributes a gap.
C14_Witness ==
    /\ pc = "report_done"
    /\ Len(chunk_results) = 3
    /\ final_results.gaps = <<>>
    /\ HasBlock(report, "no_gaps_found")

\* The paths of the files whose name does not start with a dot and none of
\* whose ancestor directories is hidden or on the ignore list.
VisiblePaths(repo) ==
    { f.path : f \in { g \in repo :
        /\ ~StartsWithDot(FileNameOf(g.path))
        /\ \A k \in 1..Len(DirNamesOf(g.path)) :
              /\ ~StartsWithDot(DirNamesOf(g.path)[k])
              /\ DirNamesOf(g.path)[k] \notin IgnoredDirs } }

\* The keys of structure["files"] and of structure["imports"].
FileKeys(structure) ==
    { structure.files[k].relative_path : k \in 1..Len(structure.files) }
ImportKeys(structure) ==
    { structure.imports[k].file : k \in 1..Len(structure.imports) }

\* A source file that ast.parse or the decoding rejects.
FailsToParse(file) ==
    EndsWith(file.path, <<".py">>) /\ (file.binary \/ ParseFails(file.content))

\* C15: the files mapping built by _extract_code_structure holds exactly the
\* files whose name does not start with a dot and none of whose ancestor
\* directories, at any depth, is hidden or on the ignore list; a source file
\* that fails to parse stays in files, gets no imports entry and does not stop
\* the walk.
C15_FilesAreTheVisibleFiles ==
    pc = "extract_done" =>
        /\ FileKeys(code_structure) = VisiblePaths(code_repo)
        /\ Len(code_structure.files) = Cardinality(VisiblePaths(code_repo))
        /\ \A f \in code_repo :
              (FailsToParse(f) /\ f.path \in VisiblePaths(code_repo)) =>
                  /\ f.path \in FileKeys(code_structure)
                  /\ f.path \notin ImportKeys(code_structure)

\* A tree with a file that does not parse, walked before a file three
\* directories deep whose import is recorded, and a file under an ignored
\* directory two deep, left out.
C15_Witness ==
    /\ pc = "extract_done"
    /\ [k \in 1..Len(code_structure.files) |-> code_structure.files[k].relative_path]
          = << <<"b", ".py">>, <<"q", "/", "r", "/", "d", ".py">> >>
    /\ ImportKeys(code_structure) = { <<"q", "/", "r", "/", "d", ".py">> }
    /\ \E f \in code_repo : f.path = <<"q", "/", "v", "e", "n", "v", "/", "v", ".py">>

\* The file behind a path: in the code root first, else in the docs root.
Resolves(path) == Exists(code_repo, path) \/ Exists(docs_repo, path)
BackingFile(path) ==
    IF Exists(code_repo, path) THEN FileAt(code_repo, path) ELSE FileAt(docs_repo, path)
BackingType(path) == IF Exists(code_repo, path) THEN "code" ELSE "doc"
Readable(path) == Resolves(path) /\ ~BackingFile(path).binary
FramedCount(path) == _count_tokens(Framed(path, BackingFile(path).content))
WithinBudget(path) == Readable(path) /\ FramedCount(path) <= MAX_TOKENS_PER_REQUEST
OverBudget(path) == Readable(path) /\ FramedCount(path) > MAX_TOKENS_PER_REQUEST

\* The units of all chunks in output order, each with the number of its
\* chunk and whether the chunk holds whole files.
AllUnits ==
    Flatten([k \in 1..Len(chunks) |->
        [u \in 1..Len(chunks[k].files) |->
            [unit |-> chunks[k].files[u], chunk |-> k, whole |-> chunks[k].via = "whole"]]])

WholeUnits ==
    LET IsWhole(e) == e.whole
    IN  SelectSeq(AllUnits, IsWhole)

\* The input paths of which a fragment may be a part.
FragmentOrigins(e) ==
    { file_paths[i] : i \in { j \in 1..Len(file_paths) :
        OverBudget(file_paths[j]) /\ StartsWith(e.unit.path, file_paths[j]) } }

OriginOf(e) == IF e.whole THEN e.unit.path ELSE CHOOSE path \in FragmentOrigins(e) : TRUE

\* The origins are met in the order of the paths, each path giving any number
\* of consecutive origins.
RECURSIVE Follows(_, _)
Follows(origins, paths) ==
    IF origins = <<>> THEN TRUE
    ELSE IF paths = <<>> THEN FALSE
    ELSE IF Head(origins) = Head(paths) THEN Follows(Tail(origins), paths)
    ELSE Follows(origins, Tail(paths))

\* C16: _create_chunks keeps the order and loses nothing: every input path
\* that resolves (code root first, else docs root), decodes and is within the
\* budget is exactly one unit of exactly one chunk; the units of all chunks in
\* output order are those files and the fragments of the oversized files, in
\* the input order of their paths; a fragment of an oversized file shares its
\* chunk with no other unit; a path that does not resolve or does not decode
\* appears nowhere.  A path given twice counts as two inputs.
C16_OrderKeptNothingLost ==
    pc = "chunk_done" =>
        /\ [i \in 1..Len(WholeUnits) |-> WholeUnits[i].unit]
              = LET kept == SelectSeq(file_paths, WithinBudget)
                IN  [i \in 1..Len(kept) |->
                        Unit(kept[i], BackingFile(kept[i]).content, BackingType(kept[i]))]
        /\ \A k \in 1..Len(chunks) : chunks[k].via /= "whole" => Len(chunks[k].files) = 1
        /\ \A i \in 1..Len(AllUnits) : ~AllUnits[i].whole => FragmentOrigins(AllUnits[i]) /= {}
        /\ Follows([i \in 1..Len(AllUnits) |-> OriginOf(AllUnits[i])], file_paths)
        /\ \A i \in 1..Len(AllUnits) : \A j \in 1..Len(file_paths) :
              ~Readable(file_paths[j]) => ~StartsWith(AllUnits[i].unit.path, file_paths[j])

\* An oversized file between two files within the budget, the second found in
\* the docs root only: the fragments come between the two whole files.
C16_Witness ==
    /\ pc = "chunk_done"
    /\ file_paths = << <<"b", ".py">>, <<"l", ".md">>, <<"d", ".md">> >>
    /\ Len(chunks) >= 3
    /\ chunks[1].via = "whole" /\ chunks[2].via /= "whole"
    /\ chunks[Len(chunks)].files = <<Unit(<<"d", ".md">>, Text(<< <<"W">> >>), "doc")>>

\* The positions in file_paths of the paths within the budget, in order: the
\* i-th of them is the input of the i-th whole-file unit.
WholePositions ==
    LET Pick(i) == WithinBudget(file_paths[i])
    IN  SelectSeq([i \in 1..Len(file_paths) |-> i], Pick)

\* The number of the units of the whole-file chunks before chunk k.
RECURSIVE WholeUnitsBefore(_)
WholeUnitsBefore(k) ==
    IF k = 1 THEN 0
    ELSE WholeUnitsBefore(k - 1)
         + (IF chunks[k - 1].via = "whole" THEN Len(chunks[k - 1].files) ELSE 0)

\* No oversized file is processed between the last file of chunk k and the
\* first file of chunk k + 1.
NoSplitBetween(k) ==
    LET last == WholePositions[WholeUnitsBefore(k + 1)]
        first == WholePositions[WholeUnitsBefore(k + 1) + 1]
    IN  \A i \in (last + 1)..(first - 1) : ~OverBudget(file_paths[i])

ConsecutiveWholeChunks(k) ==
    /\ k \in 1..(Len(chunks) - 1)
    /\ chunks[k].via = "whole" /\ chunks[k + 1].via = "whole"
    /\ NoSplitBetween(k)

\* C17: the packing is greedy: a whole-file chunk is closed only when it has
\* to be.  For two consecutive chunks of whole files with no oversized file
\* processed between them, the tokens of the first plus the framed token count
\* of the first unit of the second exceed MAX_TOKENS_PER_REQUEST.
C17_ChunkClosedOnlyWhenFull ==
    pc = "chunk_done" =>
        \A k \in 1..(Len(chunks) - 1) :
            ConsecutiveWholeChunks(k) =>
                chunks[k].tokens
                  + _count_tokens(Framed(chunks[k + 1].files[1].path,
                                         chunks[k + 1].files[1].content))
                    > MAX_TOKENS_PER_REQUEST

\* Two files packed into a chunk, closed by a third that does not fit.
C17_Witness ==
    /\ pc = "chunk_done"
    /\ Len(file_paths) = 3
    /\ Len(chunks) = 2
    /\ ConsecutiveWholeChunks(1)
    /\ Len(chunks[1].files) = 2

\* A merge applies to the pair: some file of the group of dir1 has a recorded
\* import that starts with the dotted form of dir2.
MergeApplies(dir1, dir2) ==
    \E file1 \in FilesOf(file_groups, dir1) : FileImportsDir(code_structure, file1, dir2)

\* C18: when _group_files_semantically returns, no merge applies to any pair
\* of surviving groups, in either direction: no file of a surviving group has
\* a recorded import that starts with the dotted form of the directory name
\* of another surviving group.
C18_NoMergeAppliesOnReturn ==
    pc = "grouped" =>
        \A i, j \in 1..Len(file_groups.keys) :
            i /= j => ~MergeApplies(file_groups.keys[i], file_groups.keys[j])

\* What the code does for C18: on return no merge applies from a surviving
\* group to a surviving group that comes after it in the order of the keys;
\* an import of a later group that names an earlier one is never looked at.
C18_NoForwardMergeAppliesOnReturn ==
    pc = "grouped" =>
        \A i, j \in 1..Len(file_groups.keys) :
            i < j => ~MergeApplies(file_groups.keys[i], file_groups.keys[j])

\* C19: the model calls are sequential and never retried: each chunk gets
\* exactly one call, the calls are made in the order of the chunk list, each
\* after the one before has returned or failed, and once the loop is over
\* the number of recorded results is the number of chunks, whatever the
\* outcomes.  (outcomes holds one entry for each call made, in call order.)
C19_OneCallPerChunkInOrder ==
    /\ Len(outcomes) = Len(chunk_results)
    /\ Len(chunk_results) <= Len(chunks)
    /\ \A i \in 1..Len(chunk_results) :
          chunk_results[i] = _analyze_chunk(chunks[i], outcomes[i])
    /\ pc \in {"report", "done", "crashed"} => Len(chunk_results) = Len(chunks)

\* A run of two chunks whose first call raises and whose second returns
\* text that is no JSON: two calls, two results, and the report written.
C19_Witness ==
    /\ pc = "done"
    /\ Len(chunks) = 2
    /\ outcomes = <<Raises, NotJson>>
    /\ Len(chunk_results) = 2

\* The live groups partition the keys of structure["files"]: no group is
\* empty, no file is in two groups, every file is in a group, and no directory
\* names two groups.
LiveGroupsPartitionFiles ==
    /\ \A k \in 1..Len(file_groups.keys) : file_groups.files[k] /= {}
    /\ \A i, j \in 1..Len(file_groups.keys) :
          i /= j => /\ file_groups.files[i] \cap file_groups.files[j] = {}
                    /\ file_groups.keys[i] /= file_groups.keys[j]
    /\ UNION { file_groups.files[k] : k \in 1..Len(file_groups.keys) }
          = { code_structure.files[k].relative_path : k \in 1..Len(code_structure.files) }

\* The lists returned are the live groups, each file listed once.
ResultListsTheGroups ==
    /\ Len(groups) = Len(file_groups.keys)
    /\ \A k \in 1..Len(groups) :
          /\ { groups[k][i] : i \in 1..Len(groups[k]) } = file_groups.files[k]
          /\ Len(groups[k]) = Cardinality(file_groups.files[k])

\* A merge moves all files of the removed group into the surviving group and
\* changes no other group.
MergeMovesAllFiles ==
    (file_groups' /= file_groups /\ pc = "group_merge") =>
        \E i, j \in 1..Len(file_groups.keys) :
            /\ i /= j
            /\ ~Live(file_groups', file_groups.keys[j])
            /\ \A k \in 1..Len(file_groups.keys) :
                  k /= j =>
                      /\ Live(file_groups', file_groups.keys[k])
                      /\ FilesOf(file_groups', file_groups.keys[k])
                            = IF k = i THEN file_groups.files[i] \cup file_groups.files[j]
                              ELSE file_groups.files[k]
            /\ Len(file_groups'.keys) = Len(file_groups.keys) - 1

\* C20: throughout the merge loop of _group_files_semantically and in its
\* result the live groups partition the keys of the files of the structure:
\* every file is in exactly one group, no group is empty, and a merge moves
\* all files of the removed group into the surviving group without changing
\* any other group.
C20_GroupsPartitionFiles ==
    /\ [](pc \in {"group_while", "group_merge", "grouped"} => LiveGroupsPartitionFiles)
    /\ [](pc = "grouped" => ResultListsTheGroups)
    /\ [][MergeMovesAllFiles]_vars

\* Three directory groups of which two were merged: two lists are returned,
\* one of them with the files of two directories.
C20_Witness ==
    /\ pc = "grouped"
    /\ InitialGroupCount = 3
    /\ merges = 1
    /\ Len(groups) = 2
    /\ \E k \in 1..2 : Len(groups[k]) >= 2

\* C21: no empty chunk is ever emitted: after any sequence of files (empty
\* files, oversized files and files with empty lines included) every chunk of
\* the output of _create_chunks holds at least one unit, and every chunk
\* appended by _split_large_file or _split_by_lines holds exactly one unit.
C21_NoEmptyChunk ==
    pc = "chunk_done" =>
        \A k \in 1..Len(chunks) :
            /\ Len(chunks[k].files) >= 1
            /\ chunks[k].via \in {"ast", "lines", "truncated"} => Len(chunks[k].files) = 1

\* An empty file, then a file of the docs root that is split by lines and
\* ends the list: the empty file is the one unit of the first chunk, each
\* chunk of the split holds one unit, and nothing is appended after them.
C21_Witness ==
    /\ pc = "chunk_done"
    /\ file_paths = <<WildPath, <<"l", ".md">>>>
    /\ \E f \in code_repo : f.path = WildPath /\ f.content = <<>>
    /\ Len(chunks) >= 3
    /\ chunks[1].files = <<Unit(WildPath, <<>>, "code")>>
    /\ \A k \in 2..Len(chunks) : chunks[k].via \in {"lines", "truncated"}

====
